---- MODULE Spec2Model ----
(***************************************************************************)
(* Model of the proxy agent (hot-restart supervisor) of pkg/envoy/agent.go *)
(* as a state machine: the agent's fields, the goroutines that call        *)
(* Restart, the control loop Run, and one runWait goroutine per epoch.     *)
(***************************************************************************)
EXTENDS Integers, Sequences, FiniteSets, TLC

(***************************************************************************)
(* Bounds of the model.                                                    *)
(***************************************************************************)
\* callers stop invoking Restart once this many epochs exist or are underway
MaxEpoch == 1

(***************************************************************************)
(* Program constants.                                                      *)
(***************************************************************************)
\* NewAgent: currentEpoch: -1
InitialEpoch == -1
\* make(chan error, 1)
AbortChCap == 1
\* var errAbort = errors.New("epoch aborted")
errAbort == "epoch aborted"
\* const errOutOfMemory = "signal: killed"
errOutOfMemory == "signal: killed"
\* a nil error
NoErr == "nil"

(***************************************************************************)
(* Configurations.  A config is an interface{} value: nil, a DrainConfig{} *)
(* struct value, or a pointer (ref) to a caller-owned object with content  *)
(* val.  Two distinct objects may carry the same content.                  *)
(***************************************************************************)
Nil == [kind |-> "nil", ref |-> 0, val |-> 0]
DrainConfig == [kind |-> "drain", ref |-> 0, val |-> 0]
\* objects 1 and 2 carry the same content, object 3 a different one
UserConfigs == {[kind |-> "cfg", ref |-> 1, val |-> 1],
                [kind |-> "cfg", ref |-> 2, val |-> 1],
                [kind |-> "cfg", ref |-> 3, val |-> 2]}
\* what a caller may hand to Restart
Configs == UserConfigs \cup {DrainConfig}

\* a comparison by object identity instead of by content
DeepEqualByRef(a, b) == a = b
\* reflect.DeepEqual(a.currentConfig, config): pointers are followed and the
\* pointees compared structurally; the identity of the object does not count
DeepEqual(a, b) == a.kind = b.kind /\ a.val = b.val

\* goroutines that call Restart from outside the agent
Callers == {"t1", "t2"}
\* the goroutine running agent.Run, which calls Restart from terminate
Ctl == "ctl"
Threads == Callers \cup {Ctl}
Free == "free"

\* errors with which the proxy's Run may return of its own accord
ExitErrs == {NoErr, errOutOfMemory}

VARIABLES
    currentEpoch,   \* agent.currentEpoch
    currentConfig,  \* agent.currentConfig
    activeEpochs,   \* agent.activeEpochs: epoch -> abort channel
    chans,          \* the abort channels made so far: channel -> buffered errors
    mu,             \* agent.mu: Free or the thread that holds it
    rpc,            \* per thread: position inside Restart
    rarg,           \* per thread: the config argument of its Restart call
    timer,          \* per thread: the 20 s timer of its waitUntilLive
    waitRes,        \* per thread: how its last waitUntilLive ended
    ctlPc,          \* position of agent.Run
    status,         \* the exitStatus received by agent.Run
    pending,        \* abortAll: epochs of the range loop still to visit
    ctxDone,        \* ctx.Done() is closed
    runner,         \* epoch -> the runWait goroutine of that epoch: position,
                    \* error, abort channel, and whether the config it was
                    \* handed is the one Restart recorded for its epoch
    spawned,        \* history: the epochs handed to proxy.Run, in spawn order
    cleanupCalls,   \* history: epoch -> number of proxy.Cleanup(epoch) calls
    abortSent,      \* history: channel -> number of errAbort sends by abortAll
    drainCalls,     \* history: number of Restart(DrainConfig{}) by terminate
    observed,       \* history: epochs whose exit status Run has received
    args,           \* the PilotArgs handed to NewServer
    nsPc,           \* position of NewServer
    initRan,        \* history: the init steps NewServer has called, in order
    initErr,        \* history: the init step that returned an error
    kubeClient,     \* Server.kubeClient is set
    mesh,           \* Server.mesh
    meshNetworks,   \* Server.meshNetworks
    meshConfig,     \* initMesh's local meshConfig, shared with its callback
    env,            \* Server.EnvoyXdsServer.Env, or NoEnv while it is nil
    lookup,         \* what kubeRegistry and multicluster last bound
    pushes,         \* history: number of ConfigUpdate(Full) requests
    pushedWith,     \* history: the lookup tables and Env when ConfigUpdate was last called
    file,           \* path -> content of the file on disk
    events,         \* path -> undelivered events of fileWatcher.Events(path)
    timerC,         \* path -> timerC of the path's debounce loop
    burst,          \* history: path -> events received in the open window
    lastBurst,      \* history: path -> events of the window last closed
    callbacks,      \* history: path -> number of callback invocations
    running,        \* path -> invocations of the callback that have not returned
    warnings,       \* history: the warnings logged
    writes,         \* number of file writes so far
    nextRef,        \* identity of the next object a read allocates
    startFuncs,     \* Server.startFuncs
    started,        \* history: the start actions Start has invoked, in order
    startRet,       \* what Start returned
    stop,           \* the stop channel is closed
    stopAt,         \* history: Start had returned nil when stop was closed
    synced,         \* the caches whose HasSynced is true
    task,           \* goroutine -> its position
    calls,          \* history: the Serve / Shutdown / Stop calls made
    crashed,        \* the process has panicked
    configController,   \* Server.configController
    ServiceController,  \* Server.ServiceController: its registries, in order
    mcp,            \* the locals of initMCPConfigController
    certs,          \* the credential files that exist
    certController, \* Server.certController: the lists it was created with
    armedAt,        \* history: path -> the event of the window that armed timerC
    routed          \* history: the last request on the secure listener

proxyVars == <<currentEpoch, currentConfig, activeEpochs, chans, mu, rpc, rarg,
               timer, waitRes, ctlPc, status, pending, ctxDone, runner,
               spawned, cleanupCalls, abortSent, drainCalls, observed>>

newServerVars == <<args, nsPc, initRan, initErr, kubeClient, startFuncs>>
meshVars == <<mesh, meshNetworks, meshConfig, env, lookup, pushes, pushedWith, nextRef>>
watchVars == <<file, events, timerC, burst, lastBurst, callbacks, running,
              writes>>
startVars == <<started, startRet, stop, stopAt, synced, task, calls>>
builtVars == <<configController, ServiceController, mcp, certs, certController>>
pilotVars == <<newServerVars, meshVars, watchVars, startVars, warnings,
               crashed, builtVars, armedAt, routed>>

vars == <<proxyVars, pilotVars>>

agentVars == <<currentEpoch, currentConfig, activeEpochs>>
restartVars == <<rpc, rarg, timer, waitRes>>
ctlVars == <<ctlPc, status, pending>>
histVars == <<spawned, cleanupCalls, abortSent, drainCalls, observed>>

NoStatus == [epoch |-> -1, err |-> NoErr]

(***************************************************************************)
(* Pilot server: values                                                    *)
(***************************************************************************)

\* the two files NewServer may watch: args.Mesh.ConfigFile and
\* args.NetworksConfigFile
MeshFile == "ConfigFile"
NetworksFile == "NetworksConfigFile"
Paths == {MeshFile, NetworksFile}

\* what a file may hold: the texts of two configurations and a text that
\* does not parse
Unparseable == "bad"
Contents == {"m1", "m2", Unparseable}
\* what a file may hold when NewServer is called
BootContents == {"m1", Unparseable}

\* a nil *MeshConfig or *MeshNetworks
NoMesh == [kind |-> "nil", ref |-> 0, val |-> "none"]
\* mesh.DefaultMeshConfig()
DefaultMesh == [kind |-> "cfg", ref |-> 0, val |-> "default"]
\* args.MeshConfig, when the caller hands one in
ArgsMesh == [kind |-> "cfg", ref |-> 0, val |-> "args"]

\* cmd.ReadMeshConfig / cmd.ReadMeshNetworksConfig: a fresh object, or an error
ReadConfig(text, ref) ==
    IF text = Unparseable
    THEN [err |-> TRUE, cfg |-> NoMesh]
    ELSE [err |-> FALSE, cfg |-> [kind |-> "cfg", ref |-> ref, val |-> text]]

\* Server.EnvoyXdsServer is nil
NoEnv == [kind |-> "nil"]
\* Server.kubeRegistry or Server.multicluster is nil
NoRegistry == [kind |-> "absent", ref |-> 0, val |-> "none"]

NoArgs == [kind |-> "nil"]

\* bounds: the longest mesh.ConfigSources and args.Service.Registries
MaxSources == 2
MaxRegistries == 3
\* bound: the longest list of certificate entries of a mesh
MaxCerts == 2

\* SeqsUpTo(S, n): the sequences over S of length at most n
SeqsUpTo(S, n) == UNION {[1..k -> S] : k \in 0..n}

\* strings.Contains(configSource.Address, fsScheme+"://")
ContainsFsScheme(addr) ==
    addr \in {"fs:///A", "fs://A", "fs://%zz", "xfs:///A"}

\* url.Parse(configSource.Address): what follows "//" up to the next "/" is
\* the host, the path starts at that "/"
UrlParse(addr) ==
    CASE addr = "fs:///A" -> [err |-> FALSE, Scheme |-> "fs", Path |-> "/A"]
      [] addr = "fs://A" -> [err |-> FALSE, Scheme |-> "fs", Path |-> ""]
      [] addr = "xfs:///A" -> [err |-> FALSE, Scheme |-> "xfs", Path |-> "/A"]
      [] OTHER -> [err |-> TRUE, Scheme |-> "", Path |-> ""]

\* a ConfigSource whose address is a directory
FsSource == [Address |-> "fs:///A", TlsSettings |-> "nil"]
\* the ConfigSources the model draws from.  Address: a directory, an fs URL
\* with a host and no path, an fs URL that url.Parse rejects, a URL of
\* another scheme whose text contains "fs://", and the address of a remote
\* MCP server.
\* TlsSettings: nil, or its Mode, where "INVALID" is a value of the enum's
\* integer type that names no mode; every mode on the remote address, no
\* TLS settings on the others (the fs branch does not read them)
Sources ==
    {c \in [Address : {"fs:///A", "fs://A", "fs://%zz", "xfs:///A",
                       "B:9901"},
            TlsSettings : {"nil", "DISABLE", "SIMPLE", "MUTUAL",
                           "ISTIO_MUTUAL", "INVALID"}] :
        c.Address # "B:9901" => c.TlsSettings = "nil"}

\* the names args.Service.Registries may hold; "Zookeeper" is a name the
\* switch of initServiceControllers does not know
RegistryNames == {"Kubernetes", "Mock", "Consul", "MCP", "Zookeeper"}

\* hasKubeRegistry(args)
hasKubeRegistry(a) ==
    \E i \in 1..Len(a.Registries) : a.Registries[i] = "Kubernetes"

RequiredFilesNoCert == <<"ca", "key">>

\* the certificate entries a mesh declares: the DNS names joined by commas
\* ("" when it has none) and the secret name ("" when it has none)
CertEntries ==
    {[DnsNames |-> "", SecretName |-> ""], [DnsNames |-> "", SecretName |-> "s"],
     [DnsNames |-> "a", SecretName |-> ""], [DnsNames |-> "a", SecretName |-> "s"],
     [DnsNames |-> "b", SecretName |-> "t"]}

\* the credential files of a mutual or mesh-mutual source, in the order of
\* requiredFiles
RequiredFiles == <<"ca", "key", "cert">>

\* MeshConfig: args.MeshConfig # nil, and then Sources are its ConfigSources
\* and Ingress says that its IngressControllerMode is not OFF;
\* ConfigFile: args.Mesh.ConfigFile # "";
\* NetworksConfigFile: args.NetworksConfigFile # "";
\* Registries: args.Service.Registries;
\* Controller: args.Config.Controller # nil; FileDir: args.Config.FileDir # "";
\* SecureGrpcAddr: args.DiscoveryOptions.SecureGrpcAddr # "";
\* Certificates: the Certificates of args.MeshConfig
PilotArgs ==
    {a \in [MeshConfig : BOOLEAN, Sources : SeqsUpTo(Sources, MaxSources),
            Ingress : BOOLEAN,
            ConfigFile : BOOLEAN, NetworksConfigFile : BOOLEAN,
            Registries : SeqsUpTo(RegistryNames, MaxRegistries),
            Controller : BOOLEAN,
            FileDir : BOOLEAN, ForceStop : BOOLEAN,
            SecureGrpcAddr : BOOLEAN,
            Certificates : SeqsUpTo(CertEntries, MaxCerts)] :
        /\ a.MeshConfig => ~a.ConfigFile
        /\ ~a.MeshConfig =>
              a.Sources = << >> /\ ~a.Ingress /\ a.Certificates = << >>}

\* the ConfigSources of a mesh snapshot: those of the caller's mesh, one
\* directory in the text "m2", none in "m1" and in the default mesh
ConfigSources(m) ==
    CASE m.val = "args" -> args.Sources
      [] m.val = "m2" -> <<FsSource>>
      [] OTHER -> << >>

\* s.mesh.GetCertificates(): the entries of the caller's mesh; the texts
\* "m1" and "m2" and the default mesh declare none
Certificates(m) == IF m.val = "args" THEN args.Certificates ELSE << >>

\* mesh.IngressControllerMode != meshconfig.MeshConfig_OFF
IngressControllerOn(m) == m.val = "args" /\ args.Ingress

\* a config store: the kind of store, the address or directory it is fed
\* from, and its children if it is an aggregate
Store(kind, src) == [kind |-> kind, src |-> src, children |-> << >>]
\* Server.configController is nil
NoController == Store("nil", "")
\* configaggregate.MakeCache(stores)
MakeCache(stores) == [kind |-> "aggregate", src |-> "", children |-> stores]

\* initMCPConfigController is not running
\* Server.certController is nil
NoCertController ==
    [made |-> FALSE, secretNames |-> << >>, dnsNames |-> << >>,
     namespaces |-> << >>]
\* no push was requested yet
NoPush == [lookup |-> [kubeRegistry |-> NoRegistry, multicluster |-> NoRegistry],
           env |-> NoEnv]

NoMCP == [todo |-> << >>, configStores |-> << >>, requiredFiles |-> << >>,
          clients |-> << >>, conns |-> << >>]

\* a request on the secure listener: r.ProtoMajor and the Content-Type
\* header, a string written as the sequence of its pieces
Requests ==
    [ProtoMajor : {1, 2},
     ContentType : {<< >>, <<"application/", "grpc">>,
                    <<"application/", "grpc", "+proto">>,
                    <<"application/", "json">>, <<"grpc">>}]
NoRequest == [handler |-> "none", ProtoMajor |-> 0, ContentType |-> << >>]

\* the goroutines of the server
WatchTask(p) == IF p = MeshFile THEN "watchMesh" ELSE "watchNetworks"
Controllers == {"configController", "serviceController", "xdsStart",
                "monitor", "certController", "fileMonitor", "mcp",
                "ingressSyncer"}
\* the goroutines of the two discovery start actions: the one that waits
\* for the caches, the ones that serve, the one that shuts down
Waiters == {"discovery", "secureDiscovery"}
Servers == {"httpServe", "grpcServe", "secureServe"}
Closers == {"shutdown", "secureShutdown"}
Tasks == {WatchTask(p) : p \in Paths} \cup Controllers \cup Waiters
            \cup Servers \cup Closers

\* the state before NewServer is called
NotConstructed ==
    /\ args = NoArgs
    /\ nsPc = "idle"
    /\ initRan = << >>
    /\ initErr = NoErr
    /\ kubeClient = FALSE
    /\ mesh = NoMesh
    /\ meshNetworks = NoMesh
    /\ meshConfig = NoMesh
    /\ env = NoEnv
    /\ lookup = [kubeRegistry |-> NoRegistry, multicluster |-> NoRegistry]
    /\ pushes = 0
    /\ file = [p \in Paths |-> Unparseable]
    /\ events = [p \in Paths |-> 0]
    /\ timerC = [p \in Paths |-> "nil"]
    /\ burst = [p \in Paths |-> 0]
    /\ lastBurst = [p \in Paths |-> 0]
    /\ callbacks = [p \in Paths |-> 0]
    /\ running = [p \in Paths |-> 0]
    /\ warnings = {}
    /\ writes = 0
    /\ nextRef = 1
    /\ startFuncs = << >>
    /\ started = << >>
    /\ startRet = "notcalled"
    /\ stop = FALSE
    /\ stopAt = FALSE
    /\ synced = {}
    /\ task = [t \in Tasks |-> "none"]
    /\ calls = {}
    /\ crashed = FALSE
    /\ configController = NoController
    /\ ServiceController = << >>
    /\ mcp = NoMCP
    /\ certs = {}
    /\ certController = NoCertController
    /\ pushedWith = NoPush
    /\ armedAt = [p \in Paths |-> 0]
    /\ routed = NoRequest

\* NewAgent
Init ==
    /\ currentEpoch = InitialEpoch
    /\ currentConfig = Nil
    /\ activeEpochs = << >>
    /\ chans = << >>
    /\ mu = Free
    /\ rpc = [t \in Threads |-> "idle"]
    /\ rarg = [t \in Threads |-> Nil]
    /\ timer = [t \in Threads |-> "off"]
    /\ waitRes = [t \in Threads |-> "none"]
    /\ ctlPc = "init"
    /\ status = NoStatus
    /\ pending = {}
    /\ ctxDone = FALSE
    /\ runner = << >>
    /\ spawned = << >>
    /\ cleanupCalls = << >>
    /\ abortSent = << >>
    /\ drainCalls = 0
    /\ observed = {}
    /\ NotConstructed

(***************************************************************************)
(* agent.Restart and agent.waitUntilLive                                   *)
(***************************************************************************)
\* an increment that skips a number
IncEpochSkip(e) == e + 2
\* an increment that is lost
IncEpochLost(e) == e
\* a.currentEpoch++
IncEpoch(e) == e + 1

\* a check of the epoch counter instead of the active map
NoPreviousEpochAlways(active) == TRUE
\* waitUntilLive: len(a.activeEpochs) == 0
NoPreviousEpoch(active) == Cardinality(DOMAIN active) = 0

\* a timeout branch that stays in the loop
AfterTimeoutLoop == "wait"
\* case <-timer.C: ... return
AfterTimeout == "spawn"

\* the number of Restart calls that are underway
InFlight == Cardinality({t \in Threads : rpc[t] # "idle"})

\* a caller invokes Restart(c) and queues for the mutex
RestartCall(t, c) ==
    /\ t \in Callers
    /\ rpc[t] = "idle"
    /\ currentEpoch + InFlight < MaxEpoch
    /\ rpc' = [rpc EXCEPT ![t] = "lock"]
    /\ rarg' = [rarg EXCEPT ![t] = c]
    /\ UNCHANGED <<agentVars, chans, mu, timer, waitRes, ctlVars, ctxDone,
                   runner, histVars>>
    /\ UNCHANGED pilotVars

\* a Restart that goes on without the mutex
Unlocked(t) == Free

\* a.mu.Lock() by thread t: the holder of the mutex
Locked(t) == t

\* a.mu.Lock(); the DeepEqual test; the entry of waitUntilLive with its
\* initial IsLive probe
RestartEnter(t) ==
    /\ rpc[t] = "lock"
    /\ mu = Free
    /\ IF DeepEqual(currentConfig, rarg[t])
       THEN \* same configuration: return, the deferred Unlock runs
            /\ rpc' = [rpc EXCEPT ![t] = "idle"]
            /\ rarg' = [rarg EXCEPT ![t] = Nil]
            /\ UNCHANGED <<mu, timer, waitRes>>
       ELSE /\ mu' = Locked(t)
            /\ UNCHANGED rarg
            /\ IF NoPreviousEpoch(activeEpochs)
               THEN /\ waitRes' = [waitRes EXCEPT ![t] = "noepoch"]
                    /\ rpc' = [rpc EXCEPT ![t] = "spawn"]
                    /\ UNCHANGED timer
               ELSE \E live \in BOOLEAN :
                      IF live
                      THEN /\ waitRes' = [waitRes EXCEPT ![t] = "live"]
                           /\ rpc' = [rpc EXCEPT ![t] = "spawn"]
                           /\ UNCHANGED timer
                      ELSE /\ waitRes' = [waitRes EXCEPT ![t] = "none"]
                           /\ rpc' = [rpc EXCEPT ![t] = "wait"]
                           /\ timer' = [timer EXCEPT ![t] = "armed"]
    /\ UNCHANGED <<agentVars, chans, ctlVars, ctxDone, runner, histVars>>
    /\ UNCHANGED pilotVars

\* case <-interval.C (every 500 ms): probe IsLive again; a probe that
\* finds the proxy not live goes round the loop
WaitTick(t) ==
    /\ rpc[t] = "wait"
    /\ \E live \in BOOLEAN :
         IF live
         THEN /\ waitRes' = [waitRes EXCEPT ![t] = "live"]
              /\ rpc' = [rpc EXCEPT ![t] = "spawn"]
              /\ timer' = [timer EXCEPT ![t] = "off"]
         ELSE UNCHANGED <<waitRes, rpc, timer>>
    /\ UNCHANGED <<agentVars, chans, mu, rarg, ctlVars, ctxDone, runner,
                   histVars>>
    /\ UNCHANGED pilotVars

\* 20 s after time.NewTimer(20 * time.Second) the timer sends on timer.C
TimerFires(t) ==
    /\ rpc[t] = "wait"
    /\ timer[t] = "armed"
    /\ timer' = [timer EXCEPT ![t] = "fired"]
    /\ UNCHANGED <<agentVars, chans, mu, rpc, rarg, waitRes, ctlVars,
                   ctxDone, runner, histVars>>
    /\ UNCHANGED pilotVars

\* case <-timer.C: give up waiting
WaitTimeout(t) ==
    /\ rpc[t] = "wait"
    /\ timer[t] = "fired"
    /\ rpc' = [rpc EXCEPT ![t] = AfterTimeout]
    /\ waitRes' = [waitRes EXCEPT ![t] =
                      IF AfterTimeout = "spawn" THEN "timeout" ELSE @]
    /\ timer' = [timer EXCEPT ![t] =
                      IF AfterTimeout = "spawn" THEN "off" ELSE @]
    /\ UNCHANGED <<agentVars, chans, mu, rarg, ctlVars, ctxDone, runner,
                   histVars>>
    /\ UNCHANGED pilotVars

\* a runner started with the config of the epoch before
HandedPrevious(cur, arg) == cur

\* go a.runWait(a.currentConfig, ...), after a.currentConfig = config: the
\* config the runner is handed, cur being the config of the epoch before
\* and arg the argument of Restart
HandedConfig(cur, arg) == arg

\* the tail of Restart: new epoch, new config, fresh abort channel,
\* go a.runWait(...), deferred Unlock
RestartSpawn(t) ==
    /\ rpc[t] = "spawn"
    /\ mu = Locked(t)
    /\ LET e == IncEpoch(currentEpoch)
           ch == Len(chans) + 1
       IN /\ currentEpoch' = e
          /\ currentConfig' = rarg[t]
          /\ chans' = Append(chans, << >>)
          /\ activeEpochs' = (e :> ch) @@ activeEpochs
          /\ runner' = (e :> [pc |-> 1, err |-> NoErr, ch |-> ch,
                               own |-> HandedConfig(currentConfig, rarg[t])
                                          = rarg[t]]) @@ runner
          /\ spawned' = Append(spawned, e)
          /\ cleanupCalls' = (e :> 0) @@ cleanupCalls
          /\ abortSent' = Append(abortSent, 0)
    /\ mu' = Free
    /\ rpc' = [rpc EXCEPT ![t] = "idle"]
    /\ rarg' = [rarg EXCEPT ![t] = Nil]
    /\ waitRes' = [waitRes EXCEPT ![t] = "none"]
    /\ UNCHANGED timer
    /\ UNCHANGED <<ctlVars, ctxDone, drainCalls, observed>>
    /\ UNCHANGED pilotVars

(***************************************************************************)
(* agent.runWait, one goroutine per epoch                                  *)
(***************************************************************************)
\* a runner that posts the exit status before the cleanup
RunWaitPostFirst == <<"run", "post", "cleanup">>
\* the statements of runWait in program order
RunWaitSteps == <<"run", "cleanup", "post">>

AtStep(e, s) ==
    /\ e \in DOMAIN runner
    /\ runner[e].pc <= Len(RunWaitSteps)
    /\ RunWaitSteps[runner[e].pc] = s

\* err := a.proxy.Run(config, epoch, abortCh) returns: the proxy exits of
\* its own accord, or it takes the abort error from its abort channel
ProxyRunReturns(e) ==
    /\ AtStep(e, "run")
    /\ \/ \E err \in ExitErrs :
            /\ runner' = [runner EXCEPT ![e].pc = @ + 1, ![e].err = err]
            /\ UNCHANGED chans
       \/ /\ chans[runner[e].ch] # << >>
          /\ runner' = [runner EXCEPT ![e].pc = @ + 1,
                                      ![e].err = Head(chans[runner[e].ch])]
          /\ chans' = [chans EXCEPT ![runner[e].ch] = Tail(@)]
    /\ UNCHANGED <<agentVars, mu, restartVars, ctlVars, ctxDone, histVars>>
    /\ UNCHANGED pilotVars

\* a.proxy.Cleanup(epoch)
ProxyCleanup(e) ==
    /\ AtStep(e, "cleanup")
    /\ cleanupCalls' = [cleanupCalls EXCEPT ![e] = @ + 1]
    /\ runner' = [runner EXCEPT ![e].pc = @ + 1]
    /\ UNCHANGED <<agentVars, chans, mu, restartVars, ctlVars, ctxDone,
                   spawned, abortSent, drainCalls, observed>>
    /\ UNCHANGED pilotVars

(***************************************************************************)
(* agent.Run, agent.terminate, agent.abortAll                              *)
(***************************************************************************)
\* the caller starts the control loop
RunStart ==
    /\ ctlPc = "init"
    /\ ctlPc' = "select"
    /\ UNCHANGED <<agentVars, chans, mu, restartVars, status, pending,
                   ctxDone, runner, histVars>>
    /\ UNCHANGED pilotVars

\* the caller cancels the context
CtxCancel ==
    /\ ~ctxDone
    /\ ctxDone' = TRUE
    /\ UNCHANGED <<agentVars, chans, mu, restartVars, ctlVars, runner,
                   histVars>>
    /\ UNCHANGED pilotVars

\* a.statusCh <- exitStatus{epoch, err} meets case status := <-a.statusCh
\* (the channel is unbuffered: send and receive are one step)
StatusPost(e) ==
    /\ AtStep(e, "post")
    /\ ctlPc = "select"
    /\ status' = [epoch |-> e, err |-> runner[e].err]
    /\ ctlPc' = "status"
    /\ runner' = [runner EXCEPT ![e].pc = @ + 1]
    /\ observed' = observed \cup {e}
    /\ UNCHANGED <<agentVars, chans, mu, restartVars, pending, ctxDone,
                   spawned, cleanupCalls, abortSent, drainCalls>>
    /\ UNCHANGED pilotVars

\* a status handler that forgets the delete
StatusDeleteNone(active, e) == active
\* delete(a.activeEpochs, status.epoch)
StatusDelete(active, e) == [x \in DOMAIN active \ {e} |-> active[x]]

\* a loop that returns after any exit
RunReturnsAlways(active) == TRUE
\* active := len(a.activeEpochs); if active == 0 { return nil }
RunReturns(active) == Cardinality(DOMAIN active) = 0

\* a status branch that forgets the config of a failed epoch, so that the
\* same config is started again
CtlStatusForget ==
    /\ ctlPc = "status"
    /\ mu = Free
    /\ activeEpochs' = StatusDelete(activeEpochs, status.epoch)
    /\ currentConfig' = IF status.err # NoErr THEN Nil ELSE currentConfig
    /\ ctlPc' = IF RunReturns(activeEpochs') THEN "returned" ELSE "select"
    /\ status' = NoStatus
    /\ UNCHANGED <<currentEpoch, chans, mu, restartVars, pending, ctxDone,
                   runner, histVars>>
    /\ UNCHANGED pilotVars

\* the status branch of Run: lock, log, delete the epoch, unlock, and
\* return nil when no epoch is left
CtlStatus ==
    /\ ctlPc = "status"
    /\ mu = Free
    /\ activeEpochs' = StatusDelete(activeEpochs, status.epoch)
    /\ ctlPc' = IF RunReturns(activeEpochs') THEN "returned" ELSE "select"
    /\ status' = NoStatus
    /\ UNCHANGED <<currentEpoch, currentConfig, chans, mu, restartVars,
                   pending, ctxDone, runner, histVars>>
    /\ UNCHANGED pilotVars

\* case <-ctx.Done(): a.terminate() calls a.Restart(DrainConfig{})
CtlCtxDone ==
    /\ ctlPc = "select"
    /\ ctxDone
    /\ ctlPc' = "terminate"
    /\ rpc' = [rpc EXCEPT ![Ctl] = "lock"]
    /\ rarg' = [rarg EXCEPT ![Ctl] = DrainConfig]
    /\ drainCalls' = drainCalls + 1
    /\ UNCHANGED <<agentVars, chans, mu, timer, waitRes, status, pending,
                   ctxDone, runner, spawned, cleanupCalls, abortSent,
                   observed>>
    /\ UNCHANGED pilotVars

\* Restart has returned; time.Sleep(a.terminationDrainDuration) elapses
TerminateSleep ==
    /\ ctlPc = "terminate"
    /\ rpc[Ctl] = "idle"
    /\ ctlPc' = "abortAll"
    /\ UNCHANGED <<agentVars, chans, mu, restartVars, status, pending,
                   ctxDone, runner, histVars>>
    /\ UNCHANGED pilotVars

\* a range that visits the newest epoch only
AbortTargetsNewest(active) ==
    {e \in DOMAIN active : \A x \in DOMAIN active : x <= e}
\* for epoch, abortCh := range a.activeEpochs
AbortTargets(active) == DOMAIN active

\* abortAll: a.mu.Lock() and the start of the range over activeEpochs
AbortAllLock ==
    /\ ctlPc = "abortAll"
    /\ mu = Free
    /\ mu' = Ctl
    /\ pending' = AbortTargets(activeEpochs)
    /\ ctlPc' = "aborting"
    /\ UNCHANGED <<agentVars, chans, restartVars, status, ctxDone, runner,
                   histVars>>
    /\ UNCHANGED pilotVars

\* abortCh <- errAbort for one epoch of the range (any order); the send
\* blocks while the buffer is full
AbortSend(e) ==
    /\ ctlPc = "aborting"
    /\ e \in pending
    /\ Len(chans[activeEpochs[e]]) < AbortChCap
    /\ chans' = [chans EXCEPT ![activeEpochs[e]] = Append(@, errAbort)]
    /\ abortSent' = [abortSent EXCEPT ![activeEpochs[e]] = @ + 1]
    /\ pending' = pending \ {e}
    /\ UNCHANGED <<agentVars, mu, restartVars, ctlPc, status, ctxDone,
                   runner, spawned, cleanupCalls, drainCalls, observed>>
    /\ UNCHANGED pilotVars

\* the range is over: deferred Unlock, terminate returns, Run returns nil
AbortAllDone ==
    /\ ctlPc = "aborting"
    /\ pending = {}
    /\ mu' = Free
    /\ ctlPc' = "returned"
    /\ UNCHANGED <<agentVars, chans, restartVars, status, pending, ctxDone,
                   runner, histVars>>
    /\ UNCHANGED pilotVars

Epochs == DOMAIN runner

Next ==
    \/ \E t \in Callers, c \in Configs : RestartCall(t, c)
    \/ \E t \in Threads : RestartEnter(t)
    \/ \E t \in Threads : WaitTick(t)
    \/ \E t \in Threads : TimerFires(t)
    \/ \E t \in Threads : WaitTimeout(t)
    \/ \E t \in Threads : RestartSpawn(t)
    \/ \E e \in Epochs : ProxyRunReturns(e)
    \/ \E e \in Epochs : ProxyCleanup(e)
    \/ \E e \in Epochs : StatusPost(e)
    \/ RunStart
    \/ CtxCancel
    \/ CtlStatus
    \/ CtlCtxDone
    \/ TerminateSleep
    \/ AbortAllLock
    \/ \E e \in Epochs : AbortSend(e)
    \/ AbortAllDone

Spec == Init /\ [][Next]_vars

(***************************************************************************)
(* Scheduling.  Every goroutine that can take a step of the agent's own    *)
(* code eventually takes it: timers fire, a goroutine blocked on a free    *)
(* mutex gets it, a ready select case is taken.  sync.Mutex would justify  *)
(* strong fairness for the lock steps; weak fairness, which it implies, is *)
(* all that is assumed.  Nothing is assumed of the callers (RestartCall,   *)
(* RunStart, CtxCancel), of the proxy (ProxyRunReturns may never happen)   *)
(* or of the select between a ready status and a closed context.           *)
(***************************************************************************)
Fairness ==
    /\ \A t \in Threads : WF_proxyVars(RestartEnter(t))
    /\ WF_proxyVars(\E t \in Threads :
                  TimerFires(t) \/ WaitTimeout(t) \/ RestartSpawn(t))
    /\ WF_proxyVars(CtlStatus)
    /\ WF_proxyVars(CtlCtxDone \/ TerminateSleep \/ AbortAllLock \/ AbortAllDone
                 \/ \E e \in Epochs : AbortSend(e))
    /\ WF_proxyVars(\E e \in Epochs : ProxyCleanup(e))

FairSpec == Spec /\ Fairness

(***************************************************************************)
(* Properties of the agent                                                 *)
(***************************************************************************)
\* deep structural equality of two configs, as the claims mean it
SameContent(a, b) == a.kind = b.kind /\ a.val = b.val

\* a step in which thread t's Restart spawns a runner
Spawns(t) == rpc[t] = "spawn" /\ rpc'[t] = "idle"

\* C1: the epochs handed to proxy.Run are 0, 1, 2, ... in spawn order, with
\* no gap and no reuse, and currentEpoch is the epoch spawned last: every
\* spawning Restart set it to its previous value plus one.
C1_StrictMonotonicEpochs ==
    /\ \A i \in 1..Len(spawned) : spawned[i] = i - 1
    /\ currentEpoch = Len(spawned) - 1

\* three epochs were spawned one after the other and are all still active
C1_Witness ==
    /\ spawned = <<0, 1, 2>>
    /\ currentEpoch = 2
    /\ DOMAIN activeEpochs = {0, 1, 2}

\* C5: currentEpoch is -1 exactly when no runner was ever spawned, and the
\* first spawned epoch is 0.
C5_InitialEpoch ==
    /\ (currentEpoch = -1) <=> (spawned = << >>)
    /\ spawned # << >> => spawned[1] = 0

\* the first epoch has been spawned and has already exited
C5_Witness ==
    /\ spawned = <<0>>
    /\ currentEpoch = 0
    /\ 0 \in observed

\* C2: a Restart whose config is deep-equal to the current config returns at
\* the DeepEqual test: it spawns no runner and leaves currentEpoch,
\* currentConfig, the active-epoch map, the channels and the mutex as they
\* were.
C2_EqualConfigNoOp ==
    [][\A t \in Threads :
         (rpc[t] = "lock" /\ rpc'[t] # "lock"
            /\ SameContent(currentConfig, rarg[t]))
         => /\ rpc'[t] = "idle"
            /\ UNCHANGED <<currentEpoch, currentConfig, activeEpochs, chans,
                           mu, runner, spawned>>]_vars

\* Restart(c) has spawned epoch 0 and a Restart(c') with another object of
\* the same content holds the turn at the mutex: its only step is the return
\* at the DeepEqual test
C2_Witness ==
    /\ spawned = <<0>>
    /\ mu = Free
    /\ \E t \in Callers :
          /\ rpc[t] = "lock"
          /\ SameContent(currentConfig, rarg[t])
          /\ rarg[t].ref # currentConfig.ref
    /\ \A t \in Threads : rpc[t] \in {"idle", "lock"}

\* C3 as claimed: the runner of epoch N+1 is never spawned before the
\* current epoch N was observed live or the live-wait timed out.
C3_Original ==
    [][\A t \in Threads :
         (Spawns(t) /\ currentEpoch >= 0)
         => waitRes[t] \in {"live", "timeout"}]_vars

\* C3 as amended: while at least one epoch is in the active map, a Restart
\* with a differing config spawns only after an IsLive probe returned true
\* or the 20 s timer fired; with an empty active map it spawns at once,
\* without a probe, also when earlier epochs exist.
C3_WaitsWhileActive ==
    [][\A t \in Threads :
         Spawns(t)
         => /\ ~SameContent(currentConfig, rarg[t])
            /\ IF DOMAIN activeEpochs # {}
               THEN waitRes[t] \in {"live", "timeout"}
               ELSE waitRes[t] = "noepoch"]_vars

\* a Restart whose live-wait on active epoch 0 timed out is about to spawn
C3_Witness ==
    \E t \in Threads :
        /\ rpc[t] = "spawn"
        /\ waitRes[t] = "timeout"
        /\ currentEpoch = 0
        /\ DOMAIN activeEpochs = {0}

Reaps == ctlPc = "status" /\ ctlPc' # "status"

\* C7: handling the exit status of epoch e removes e and nothing else from
\* the active map, and Run returns exactly when the map is then empty;
\* otherwise it goes back to the select.
C7_StatusRemovesEpoch ==
    [][Reaps
       => /\ DOMAIN activeEpochs' = DOMAIN activeEpochs \ {status.epoch}
          /\ \A x \in DOMAIN activeEpochs' : activeEpochs'[x] = activeEpochs[x]
          /\ (ctlPc' = "returned") <=> (DOMAIN activeEpochs' = {})
          /\ ctlPc' \in {"returned", "select"}
          /\ UNCHANGED <<chans, runner>>]_vars

\* an epoch that exited with an error was reaped while another one stays
\* active, and the loop is back at its select
C7_Witness ==
    /\ ctlPc = "select"
    /\ \E e \in observed : runner[e].err # NoErr /\ e \notin DOMAIN activeEpochs
    /\ DOMAIN activeEpochs # {}

C4_RestartReturns ==
    /\ \A t \in Threads : (rpc[t] # "idle") ~> (rpc[t] = "idle" /\ mu # t)
    /\ [][\A t \in Threads :
            /\ (waitRes'[t] = "timeout" /\ waitRes[t] # "timeout")
               => (timer[t] = "fired" /\ rpc'[t] = "spawn")
            /\ (rpc[t] = "spawn" /\ rpc'[t] # "spawn")
               => /\ currentEpoch' = currentEpoch + 1
                  /\ spawned' = Append(spawned, currentEpoch')
                  /\ mu = t /\ mu' = Free]_vars

\* IsLive never returned true for 20 s and the Restart is about to spawn
C4_Witness ==
    \E t \in Threads :
        /\ rpc[t] = "spawn"
        /\ waitRes[t] = "timeout"
        /\ mu = t

\* C8: on ctx.Done the control loop calls Restart(DrainConfig{}) once; that
\* call spawns the next epoch (epoch 1 when epoch 0 is the current one)
\* unless the current config is already the drain config; after the drain
\* duration abortAll sends errAbort once to the abort channel of every
\* epoch in the active map, no send finding its buffer full, and Run
\* returns.
C8_TerminateDrains ==
    /\ [](ctlPc \in {"terminate", "abortAll", "aborting"} => drainCalls = 1)
    /\ [](drainCalls <= 1)
    /\ [](\A ch \in DOMAIN abortSent : abortSent[ch] <= 1)
    /\ [](ctlPc = "aborting"
            => \A e \in pending : Len(chans[activeEpochs[e]]) = 0)
    /\ [][/\ (ctlPc = "select" /\ ctlPc' = "terminate")
             => (rpc'[Ctl] = "lock" /\ rarg'[Ctl] = DrainConfig)
          /\ (ctlPc = "terminate" /\ rpc[Ctl] = "lock" /\ rpc'[Ctl] = "idle")
             => currentConfig = DrainConfig
          /\ (ctlPc = "terminate" /\ Spawns(Ctl))
             => /\ currentEpoch' = currentEpoch + 1
                /\ currentConfig' = DrainConfig
                /\ currentEpoch' \in DOMAIN activeEpochs'
          /\ (ctlPc = "aborting" /\ ctlPc' = "returned")
             => \A e \in DOMAIN activeEpochs :
                   abortSent[activeEpochs[e]] = 1]_vars
    /\ (ctlPc = "terminate") ~> (ctlPc = "returned")

\* the context was cancelled with epoch 0 running: the drain epoch 1 was
\* spawned, both epochs got the abort sentinel once, and Run has returned
C8_Witness ==
    /\ ctlPc = "returned"
    /\ drainCalls = 1
    /\ spawned = <<0, 1>>
    /\ currentConfig = DrainConfig
    /\ DOMAIN activeEpochs = {0, 1}
    /\ abortSent = <<1, 1>>

\* C10 as the doc comment of Agent states it: once an epoch has exited with
\* an error, the agent by itself starts the proxy again.
C10_AgentRetries ==
    \A n \in 0..(MaxEpoch + 1) :
        (Len(spawned) = n + 1 /\ n \in observed /\ runner[n].err # NoErr)
        ~> (Len(spawned) > n + 1)

(***************************************************************************)
(* Pilot server: NewServer                                                 *)
(***************************************************************************)

\* a bound: the number of file writes the environment makes
MaxWrites == 2

Alive == ~crashed

\* the order in which NewServer calls the init steps
InitSteps ==
    <<"initKubeClient", "initMesh", "initMeshNetworks", "initConfigController",
      "initServiceControllers", "initDiscoveryService", "initMonitor",
      "initClusterRegistries", "initCertController">>

StepIndex(step) == CHOOSE i \in 1..Len(InitSteps) : InitSteps[i] = step

\* where NewServer goes after a step that returned nil
AfterStep(step) ==
    IF StepIndex(step) = Len(InitSteps) THEN "returned"
    ELSE InitSteps[StepIndex(step) + 1]

AfterErrorContinue(step) == AfterStep(step)

\* where NewServer goes after a step that returned an error: return nil, err
AfterError(step) == "failed"

\* NewServer is at the call of step
At(step) == Alive /\ nsPc = step

\* NewServer calls step, which returns ok or an error
Returns(step, ok) ==
    /\ initRan' = Append(initRan, step)
    /\ initErr' = IF ok THEN initErr ELSE step
    /\ nsPc' = IF ok THEN AfterStep(step) ELSE AfterError(step)

\* addStartFunc
AddStartFunc(fns, fn) == Append(fns, fn)

\* the caller calls NewServer(args); the files args names hold some text
NewServerCall(a, mtext, ntext) ==
    /\ Alive
    /\ nsPc = "idle"
    /\ args' = a
    /\ file' = [file EXCEPT
                  ![MeshFile] = IF a.ConfigFile THEN mtext ELSE @,
                  ![NetworksFile] = IF a.NetworksConfigFile THEN ntext ELSE @]
    /\ nsPc' = InitSteps[1]
    /\ UNCHANGED <<initRan, initErr, kubeClient, startFuncs, meshVars,
                   events, timerC, burst, lastBurst, callbacks, running,
                   writes,
                   startVars, warnings, crashed>>
    /\ UNCHANGED <<proxyVars, builtVars, armedAt, routed>>

\* initKubeClient
InitKubeClient(ok) ==
    /\ At("initKubeClient")
    /\ ~(hasKubeRegistry(args) /\ ~args.FileDir) => ok
    /\ kubeClient' = (hasKubeRegistry(args) /\ ~args.FileDir /\ ok)
    /\ Returns("initKubeClient", ok)
    /\ UNCHANGED <<args, startFuncs, meshVars, watchVars, startVars, warnings,
                   crashed>>
    /\ UNCHANGED <<proxyVars, builtVars, armedAt, routed>>

\* addFileWatcher: the path is added to the watcher and its debounce loop
\* is spawned
AddFileWatcher(p) == [task EXCEPT ![WatchTask(p)] = "running"]

\* initMesh up to the test of meshConfig == nil
InitMesh ==
    /\ At("initMesh")
    /\ initRan' = Append(initRan, "initMesh")
    /\ initErr' = initErr
    /\ IF args.MeshConfig
       THEN /\ mesh' = ArgsMesh
            /\ nsPc' = AfterStep("initMesh")
            /\ UNCHANGED <<meshConfig, nextRef, task, warnings>>
       ELSE /\ nsPc' = "initMeshDefault"
            /\ mesh' = mesh
            /\ IF args.ConfigFile
               THEN LET r == ReadConfig(file[MeshFile], nextRef) IN
                    /\ meshConfig' = r.cfg
                    /\ nextRef' = nextRef + 1
                    /\ warnings' = IF r.err
                                   THEN warnings \cup {"initMesh: failed to read"}
                                   ELSE warnings
                    /\ task' = AddFileWatcher(MeshFile)
               ELSE UNCHANGED <<meshConfig, nextRef, task, warnings>>
    /\ UNCHANGED <<args, kubeClient, startFuncs, meshNetworks, env, lookup,
                   pushes, pushedWith, watchVars, started, startRet, stop, stopAt, synced, calls,
                   crashed>>
    /\ UNCHANGED <<proxyVars, builtVars, armedAt, routed>>

GetMeshConfigNoDefault(ok) == [err |-> ~ok, cfg |-> NoMesh]

\* GetMeshConfig: the default mesh without a kube client or a config map,
\* else what the config map holds, or the error of the fetch
GetMeshConfig(ok) ==
    IF ok THEN [err |-> FALSE, cfg |-> DefaultMesh]
    ELSE [err |-> TRUE, cfg |-> NoMesh]

\* initMesh from the test of meshConfig == nil to its return
InitMeshDefault(ok) ==
    /\ At("initMeshDefault")
    /\ ~kubeClient => ok
    /\ meshConfig # NoMesh => ok
    /\ LET cfg == IF meshConfig = NoMesh THEN GetMeshConfig(ok).cfg
                  ELSE meshConfig
       IN /\ meshConfig' = cfg
          /\ mesh' = IF ok THEN cfg ELSE mesh
    /\ nsPc' = IF ok THEN AfterStep("initMesh") ELSE AfterError("initMesh")
    /\ initErr' = IF ok THEN initErr ELSE "initMesh"
    /\ UNCHANGED <<args, initRan, kubeClient, startFuncs, meshNetworks, env,
                   lookup, pushes, pushedWith, nextRef, watchVars, startVars, warnings,
                   crashed>>
    /\ UNCHANGED <<proxyVars, builtVars, armedAt, routed>>

\* util.ResolveHostsInNetworksConfig rewrites the object in place: a gateway
\* named by host name gets the addresses the name resolves to.  The text
\* "m2" names a gateway by host name, the others give addresses.
ResolveHostsInNetworksConfig(n) ==
    IF n.val = "m2" THEN [n EXCEPT !.val = "m2@resolved"] ELSE n

\* initMeshNetworks
InitMeshNetworks ==
    /\ At("initMeshNetworks")
    /\ Returns("initMeshNetworks", TRUE)
    /\ IF args.NetworksConfigFile
       THEN LET r == ReadConfig(file[NetworksFile], nextRef) IN
            /\ nextRef' = nextRef + 1
            /\ IF r.err
               THEN /\ warnings' = warnings \cup
                                     {"initMeshNetworks: failed to read"}
                    /\ UNCHANGED <<meshNetworks, task>>
               ELSE /\ meshNetworks' = ResolveHostsInNetworksConfig(r.cfg)
                    /\ task' = AddFileWatcher(NetworksFile)
                    /\ UNCHANGED warnings
       ELSE UNCHANGED <<meshNetworks, nextRef, task, warnings>>
    /\ UNCHANGED <<args, kubeClient, startFuncs, mesh, meshConfig, env, lookup,
                   pushes, pushedWith, watchVars, started, startRet, stop, stopAt, synced, calls,
                   crashed>>
    /\ UNCHANGED <<proxyVars, builtVars, armedAt, routed>>

\* the tail of initConfigController, from the start action of the
\* controller to the return, when cc was stored in s.configController and
\* fns are the start actions so far: the ingress wrap fails ("wrapError"),
\* or the status syncer cannot be made ("noSyncer"), or neither
IngressWrapped(cc, fns, how) ==
    LET run == AddStartFunc(fns, "configController") IN
    IF hasKubeRegistry(args) /\ IngressControllerOn(mesh)
    THEN IF how = "wrapError"
         THEN [err |-> TRUE, cc |-> cc, fns |-> run]
         ELSE [err |-> FALSE,
               cc |-> MakeCache(<<cc, Store("ingress", "")>>),
               fns |-> IF how = "noSyncer" THEN run
                       ELSE AddStartFunc(run, "ingressSyncer")]
    ELSE [err |-> FALSE, cc |-> cc, fns |-> run]

\* the failures initConfigController has on its path
ConfigFailures ==
    (IF nsPc = "initMCP" THEN {"cacheError"} ELSE {})
    \cup (IF nsPc = "initConfigController" /\ ~args.Controller
             /\ ~args.FileDir
          THEN {"kubeError"} ELSE {})
    \cup (IF hasKubeRegistry(args) /\ IngressControllerOn(mesh)
          THEN {"wrapError", "noSyncer"} ELSE {})

StoreIgnoresOverride(a) ==
    IF a.FileDir THEN Store("memory", "FileDir")
    ELSE IF a.Controller THEN Store("override", "")
    ELSE Store("kube", "")

\* the store initConfigController makes when the mesh names no sources:
\* args.Config.Controller, else a memory store fed from args.Config.FileDir,
\* else the controller of makeKubeConfigController
StoreFor(a) ==
    IF a.Controller THEN Store("override", "")
    ELSE IF a.FileDir THEN Store("memory", "FileDir")
    ELSE Store("kube", "")

\* initConfigController: with ConfigSources it enters
\* initMCPConfigController, else it runs to its return
InitConfigController(how) ==
    /\ At("initConfigController")
    /\ how \in ConfigFailures \cup {"ok"}
    /\ initRan' = Append(initRan, "initConfigController")
    /\ IF Len(ConfigSources(mesh)) > 0
       THEN /\ how = "ok"
            /\ nsPc' = "initMCP"
            /\ mcp' = [NoMCP EXCEPT !.todo = ConfigSources(mesh)]
            /\ UNCHANGED <<initErr, startFuncs, configController, warnings>>
       ELSE LET cc == StoreFor(args)
                fns == IF cc.kind = "memory"
                       THEN AddStartFunc(startFuncs, "fileMonitor")
                       ELSE startFuncs
                r == IngressWrapped(cc, fns, how)
                ok == how # "kubeError" /\ ~r.err
            IN /\ configController' = IF how = "kubeError"
                                      THEN configController ELSE r.cc
               /\ startFuncs' = IF how = "kubeError" THEN startFuncs
                                ELSE r.fns
               /\ warnings' = IF how = "noSyncer"
                              THEN warnings \cup
                                     {"Disabled ingress status syncer"}
                              ELSE warnings
               /\ nsPc' = IF ok THEN AfterStep("initConfigController")
                          ELSE AfterError("initConfigController")
               /\ initErr' = IF ok THEN initErr ELSE "initConfigController"
               /\ UNCHANGED mcp
    /\ UNCHANGED <<args, kubeClient, meshVars, watchVars, startVars, crashed,
                   ServiceController, certs,
                   certController>>
    /\ UNCHANGED <<proxyVars, armedAt, routed>>

\* the security option of a remote source by its TLS mode: dial at once
\* ("insecure", "skipVerify"), wait for the credential files ("wait"), or
\* log.Errorf and continue with the next source ("skip")
SecurityOption(mode) ==
    CASE mode \in {"nil", "DISABLE"} -> "insecure"
      [] mode = "SIMPLE" -> "skipVerify"
      [] mode \in {"MUTUAL", "ISTIO_MUTUAL"} -> "wait"
      [] OTHER -> "skip"

\* the branch of the loop a source takes by its address: an error (the
\* address holds "fs://" and does not parse, or parses to the scheme fs
\* without a path), a directory (it parses to the scheme fs), or a remote
\* server
FsBranch(src) ==
    LET u == UrlParse(src.Address) IN
    IF ~ContainsFsScheme(src.Address) THEN "remote"
    ELSE IF u.err THEN "error"
    ELSE IF u.Scheme # "fs" THEN "remote"
    ELSE IF u.Path = "" THEN "error"
    ELSE "fs"

ChildAlwaysRemote(src) == Store("mcp", src.Address)

\* the child initMCPConfigController makes for a source: a memory store fed
\* by a file monitor, or the controller of an MCP client
ChildOf(src) ==
    IF FsBranch(src) = "fs" THEN Store("memory", src.Address)
    ELSE Store("mcp", src.Address)

\* the end of the loop body: the child of the source is appended to
\* configStores and, for a remote source, its client to clients and its
\* connection to conns
AddChild(m, src) ==
    LET c == ChildOf(src) IN
    [m EXCEPT !.configStores = Append(@, c),
              !.clients = IF c.kind = "mcp" THEN Append(@, "made") ELSE @,
              !.conns = IF c.kind = "mcp" THEN Append(@, "open") ELSE @]

\* initMCPConfigController leaves with an error, or NewServer goes on
MCPFails ==
    /\ nsPc' = AfterError("initConfigController")
    /\ initErr' = "initConfigController"

\* one turn of the loop over s.mesh.ConfigSources, up to the next source,
\* the credential wait or the return of an error; the dial of a remote
\* source succeeds ("ok") or fails ("dialError")
MCPSource(how) ==
    /\ At("initMCP")
    /\ mcp.todo # << >>
    /\ LET src == Head(mcp.todo)
           next == [mcp EXCEPT !.todo = Tail(@)]
           child == AddChild(next, src)
           opt == SecurityOption(src.TlsSettings)
       IN IF FsBranch(src) = "error"
          THEN /\ how = "ok"
               /\ MCPFails
               /\ UNCHANGED <<mcp, startFuncs, warnings>>
          ELSE IF FsBranch(src) = "fs"
          THEN /\ how = "ok"
               /\ mcp' = child
               /\ startFuncs' = AddStartFunc(startFuncs, "fileMonitor")
               /\ UNCHANGED <<nsPc, initErr, warnings>>
          ELSE IF opt = "skip"
          THEN /\ how = "ok"
               /\ mcp' = next
               /\ warnings' = warnings \cup {"invalid tls setting mode"}
               /\ UNCHANGED <<nsPc, initErr, startFuncs>>
          ELSE IF opt = "wait"
          THEN /\ how = "ok"
               /\ mcp' = [mcp EXCEPT !.requiredFiles = RequiredFiles]
               /\ nsPc' = "mcpCertWait"
               /\ UNCHANGED <<initErr, startFuncs, warnings>>
          ELSE /\ IF how = "ok"
                  THEN mcp' = child /\ UNCHANGED <<nsPc, initErr>>
                  ELSE MCPFails /\ UNCHANGED mcp
               /\ UNCHANGED <<startFuncs, warnings>>
    /\ UNCHANGED <<args, initRan, kubeClient, meshVars, watchVars, startVars,
                   crashed, configController, ServiceController, certs,
                   certController>>
    /\ UNCHANGED <<proxyVars, armedAt, routed>>

\* ctx.Done() of initMCPConfigController's context is closed: cancel is
\* called on the error returns and by the goroutine of the start action
\* registered after the loop, once it has read the closed stop channel
CtxDone == task["mcp"] \in {"cancelled", "closing", "exited"}

\* os.Stat(requiredFiles[0]) inside the wait loop
MCPCertStat ==
    /\ At("mcpCertWait")
    /\ IF Head(mcp.requiredFiles) \in certs
       THEN /\ mcp' = [mcp EXCEPT !.requiredFiles = Tail(@)]
            /\ nsPc' = IF Len(mcp.requiredFiles) = 1 THEN "mcpDial"
                       ELSE "mcpCertWait"
            /\ UNCHANGED warnings
       ELSE /\ nsPc' = "mcpCertSleep"
            /\ warnings' = warnings \cup {"credential file not found"}
            /\ UNCHANGED mcp
    /\ UNCHANGED <<args, initRan, initErr, kubeClient, startFuncs, meshVars,
                   watchVars, startVars, crashed, configController,
                   ServiceController, certs,
                   certController>>
    /\ UNCHANGED <<proxyVars, armedAt, routed>>

\* the select of the wait loop: time.After(requiredMCPCertCheckFreq)
\* delivers and the loop stats again, or ctx.Done() is closed and
\* initMCPConfigController returns ctx.Err()
MCPCertSelect ==
    /\ At("mcpCertSleep")
    /\ \E done \in {d \in BOOLEAN : d => CtxDone} :
          IF done THEN MCPFails
          ELSE nsPc' = "mcpCertWait" /\ UNCHANGED initErr
    /\ UNCHANGED <<args, initRan, kubeClient, startFuncs, meshVars,
                   watchVars, startVars, warnings, crashed, builtVars>>
    /\ UNCHANGED <<proxyVars, armedAt, routed>>

\* creds.WatchFiles and grpc.DialContext after the wait: both succeed
\* ("ok"), or one returns an error
MCPDial(how) ==
    /\ At("mcpDial")
    /\ IF how = "ok"
       THEN /\ mcp' = AddChild([mcp EXCEPT !.todo = Tail(@)], Head(mcp.todo))
            /\ nsPc' = "initMCP"
            /\ UNCHANGED initErr
       ELSE MCPFails /\ UNCHANGED mcp
    /\ UNCHANGED <<args, initRan, kubeClient, startFuncs, meshVars,
                   watchVars, startVars, warnings, crashed, configController,
                   ServiceController, certs,
                   certController>>
    /\ UNCHANGED <<proxyVars, armedAt, routed>>

\* the loop is over: the start action of the clients is registered, the
\* children are wrapped in one cache and initConfigController runs to its
\* return
MCPDone(how) ==
    /\ At("initMCP")
    /\ mcp.todo = << >>
    /\ how \in ConfigFailures \cup {"ok"}
    /\ LET fns == AddStartFunc(startFuncs, "mcp")
           r == IngressWrapped(MakeCache(mcp.configStores), fns, how)
           ok == how # "cacheError" /\ ~r.err
       IN /\ configController' = IF how = "cacheError"
                                 THEN configController ELSE r.cc
          /\ startFuncs' = IF how = "cacheError" THEN fns ELSE r.fns
          /\ warnings' = IF how = "noSyncer"
                         THEN warnings \cup {"Disabled ingress status syncer"}
                         ELSE warnings
          /\ nsPc' = IF ok THEN AfterStep("initConfigController")
                     ELSE AfterError("initConfigController")
          /\ initErr' = IF ok THEN initErr ELSE "initConfigController"
    /\ UNCHANGED <<args, initRan, kubeClient, meshVars, watchVars, startVars,
                   crashed, ServiceController, mcp, certs,
                   certController>>
    /\ UNCHANGED <<proxyVars, armedAt, routed>>

\* the environment creates a credential file while initMCPConfigController
\* waits for the files
CreateCredential(f) ==
    /\ Alive
    /\ nsPc \in {"mcpCertWait", "mcpCertSleep"}
    /\ f \notin certs
    /\ certs' = certs \cup {f}
    /\ UNCHANGED <<newServerVars, meshVars, watchVars, startVars, warnings,
                   crashed, configController, ServiceController, mcp,
                   certController>>
    /\ UNCHANGED <<proxyVars, armedAt, routed>>

\* the registries one name of args.Service.Registries adds to the aggregate
\* (initMemoryRegistry adds two, the MCP case none)
Adapters(name) ==
    CASE name = "Mock" -> <<"mockAdapter1", "mockAdapter2">>
      [] name = "MCP" -> << >>
      [] OTHER -> <<name>>

RegisteredNever(seen, name) == FALSE

\* _, exists := registered[serviceRegistry]
Registered(seen, name) == name \in seen

RECURSIVE AddRegistries(_, _, _, _)
\* the loop of initServiceControllers over the names still to visit, with
\* the names registered and the registries added so far; consulOk tells
\* whether consul.NewController succeeds
AddRegistries(names, seen, added, consulOk) ==
    IF names = << >>
    THEN [err |-> FALSE, added |-> added, seen |-> seen, warned |-> FALSE]
    ELSE LET r == Head(names) IN
         IF Registered(seen, r)
         THEN [AddRegistries(Tail(names), seen, added, consulOk)
                  EXCEPT !.warned = TRUE]
         ELSE IF r \notin {"Mock", "Kubernetes", "Consul", "MCP"}
                    \/ (r = "Consul" /\ ~consulOk)
         THEN [err |-> TRUE, added |-> added, seen |-> seen \cup {r},
               warned |-> FALSE]
         ELSE AddRegistries(Tail(names), seen \cup {r},
                            added \o Adapters(r), consulOk)

ServiceEntriesFirst(added) == <<"ServiceEntries">> \o added

\* serviceControllers.AddRegistry(serviceEntryRegistry) after the loop
WithServiceEntries(added) == Append(added, "ServiceEntries")

\* initServiceControllers
InitServiceControllers(consulOk) ==
    /\ At("initServiceControllers")
    /\ LET r == AddRegistries(args.Registries, {}, << >>, consulOk) IN
       /\ consulOk \/ "Consul" \in r.seen
       /\ Returns("initServiceControllers", ~r.err)
       /\ lookup' = IF "Kubernetes" \in r.seen
                    THEN [lookup EXCEPT !.kubeRegistry = NoMesh]
                    ELSE lookup
       /\ ServiceController' = IF r.err THEN ServiceController
                               ELSE WithServiceEntries(r.added)
       /\ startFuncs' = IF r.err THEN startFuncs
                        ELSE AddStartFunc(startFuncs, "serviceController")
       /\ warnings' = IF r.warned
                      THEN warnings \cup {"registry specified multiple times"}
                      ELSE warnings
    /\ UNCHANGED <<args, kubeClient, mesh, meshNetworks, meshConfig, env,
                   pushes, pushedWith, nextRef, watchVars, startVars, crashed,
                   configController, mcp, certs,
                   certController>>
    /\ UNCHANGED <<proxyVars, armedAt, routed>>

\* initDiscoveryService; it fails in NewDiscoveryService ("discovery"), in
\* net.Listen ("listen"), in initSecureGrpcServer or the secure net.Listen
\* ("secure"), or not at all ("ok")
InitDiscoveryService(how) ==
    /\ At("initDiscoveryService")
    /\ how = "secure" => args.SecureGrpcAddr
    /\ Returns("initDiscoveryService", how = "ok")
    /\ IF how = "discovery"
       THEN UNCHANGED <<env, lookup, startFuncs>>
       ELSE /\ env' = [kind |-> "env", Mesh |-> mesh,
                       MeshNetworks |-> meshNetworks]
            /\ lookup' = IF lookup.kubeRegistry # NoRegistry
                         THEN [lookup EXCEPT !.kubeRegistry = meshNetworks]
                         ELSE lookup
            /\ startFuncs' =
                 LET xds == AddStartFunc(startFuncs, "xdsStart")
                     plain == AddStartFunc(xds, "discovery")
                 IN CASE how = "listen" -> xds
                      [] how = "secure" -> plain
                      [] OTHER -> IF args.SecureGrpcAddr
                                  THEN AddStartFunc(plain, "secureDiscovery")
                                  ELSE plain
    /\ UNCHANGED <<args, kubeClient, mesh, meshNetworks, meshConfig, pushes, pushedWith,
                   nextRef, watchVars, startVars, warnings, crashed>>
    /\ UNCHANGED <<proxyVars, builtVars, armedAt, routed>>

\* initMonitor
InitMonitor ==
    /\ At("initMonitor")
    /\ Returns("initMonitor", TRUE)
    /\ startFuncs' = AddStartFunc(startFuncs, "monitor")
    /\ UNCHANGED <<args, kubeClient, meshVars, watchVars, startVars, warnings,
                   crashed>>
    /\ UNCHANGED <<proxyVars, builtVars, armedAt, routed>>

\* initClusterRegistries
InitClusterRegistries(ok) ==
    /\ At("initClusterRegistries")
    /\ ~hasKubeRegistry(args) => ok
    /\ Returns("initClusterRegistries", ok)
    /\ lookup' = IF hasKubeRegistry(args) /\ ok
                 THEN [lookup EXCEPT !.multicluster = meshNetworks]
                 ELSE lookup
    /\ UNCHANGED <<args, kubeClient, startFuncs, mesh, meshNetworks,
                   meshConfig, env, pushes, pushedWith, nextRef, watchVars, startVars,
                   warnings, crashed>>
    /\ UNCHANGED <<proxyVars, builtVars, armedAt, routed>>

RECURSIVE CertListsBySecret(_)
CertListsBySecret(list) ==
    IF list = << >>
    THEN [secretNames |-> << >>, dnsNames |-> << >>, namespaces |-> << >>,
          pilot |-> FALSE]
    ELSE LET c == Head(list)
             r == CertListsBySecret(Tail(list))
         IN IF c.SecretName # ""
            THEN [r EXCEPT !.secretNames = <<c.SecretName>> \o @,
                           !.dnsNames = <<c.DnsNames>> \o @,
                           !.namespaces = <<"ns">> \o @]
            ELSE [r EXCEPT !.pilot = TRUE]

RECURSIVE CertLists(_)
\* the loop of initCertController over the entries: an entry without a DNS
\* name is passed over; one with a secret name is appended to secretNames,
\* dnsNames and namespaces (args.Namespace, "ns"); for the first of the
\* others the key and certificate of Pilot are generated (pilot)
CertLists(list) ==
    IF list = << >>
    THEN [secretNames |-> << >>, dnsNames |-> << >>, namespaces |-> << >>,
          pilot |-> FALSE]
    ELSE LET c == Head(list)
             r == CertLists(Tail(list))
         IN IF c.DnsNames = "" THEN r
            ELSE IF c.SecretName # ""
            THEN [r EXCEPT !.secretNames = <<c.SecretName>> \o @,
                           !.dnsNames = <<c.DnsNames>> \o @,
                           !.namespaces = <<"ns">> \o @]
            ELSE [r EXCEPT !.pilot = TRUE]

\* initCertController.  With no entry it returns nil.  Generating Pilot's
\* own certificate can fail at the directory ("mkdirError", returned), or
\* at the signing or the writing of the files ("genError", logged, nil is
\* returned and no controller is made); chiron.NewWebhookController can
\* fail ("ctorError", returned).  The Kubernetes client is used for the
\* signing and for the controller: a nil s.kubeClient panics there.
InitCertController(how) ==
    /\ At("initCertController")
    /\ LET list == Certificates(mesh)
           r == CertLists(list)
           nilClient == ~kubeClient /\ list # << >>
                           /\ ~(r.pilot /\ how = "mkdirError")
           made == list # << >> /\ how = "ok" /\ ~nilClient
       IN /\ how \in {"mkdirError", "genError"} => r.pilot
          /\ how # "ok" => list # << >>
          /\ nilClient => how = "ok"
          /\ crashed' = nilClient
          /\ IF nilClient
             THEN UNCHANGED <<initRan, initErr, nsPc>>
             ELSE Returns("initCertController",
                          how \notin {"mkdirError", "ctorError"})
          /\ certController' =
                IF made
                THEN [made |-> TRUE, secretNames |-> r.secretNames,
                      dnsNames |-> r.dnsNames, namespaces |-> r.namespaces]
                ELSE certController
          /\ startFuncs' = IF made
                           THEN AddStartFunc(startFuncs, "certController")
                           ELSE startFuncs
    /\ UNCHANGED <<args, kubeClient, meshVars, watchVars, startVars, warnings>>
    /\ UNCHANGED <<proxyVars, configController, ServiceController, mcp, certs,
                   armedAt, routed>>

(***************************************************************************)
(* Pilot server: file watcher and reload callbacks                         *)
(***************************************************************************)

Watching(p) == Alive /\ task[WatchTask(p)] = "running"

\* the environment rewrites a watched file; the watcher posts an event
FileWrite(p, text) ==
    /\ Watching(p)
    /\ writes < MaxWrites
    /\ writes' = writes + 1
    /\ file' = [file EXCEPT ![p] = text]
    /\ events' = [events EXCEPT ![p] = @ + 1]
    /\ UNCHANGED <<newServerVars, meshVars, timerC, burst, lastBurst,
                   callbacks, running, startVars, warnings, crashed>>
    /\ UNCHANGED <<proxyVars, builtVars, armedAt, routed>>

\* case <-s.fileWatcher.Events(file): the timer is armed if none is pending
Arm(t) == IF t = "nil" THEN "armed" ELSE t

CallbackPerEvent(p) == [callbacks EXCEPT ![p] = @ + 1]

\* the event branch of the debounce loop calls nothing
OnEvent(p) == callbacks

RearmedAt(t, at, n) == n

\* the event of the window from which the pending timer counts its 100 ms,
\* after event n of the window was received with timerC = t:
\* if timerC == nil { timerC = time.After(100 * time.Millisecond) }
ArmedAt(t, at, n) == IF t = "nil" THEN n ELSE at

\* the debounce loop of p is at its select: callback() has returned
AtSelect(p) == running[p] = 0

\* the debounce loop of p takes the event branch of its select
WatchEvent(p) ==
    /\ Watching(p)
    /\ AtSelect(p)
    /\ events[p] > 0
    /\ events' = [events EXCEPT ![p] = @ - 1]
    /\ burst' = [burst EXCEPT ![p] = @ + 1]
    /\ timerC' = [timerC EXCEPT ![p] = Arm(@)]
    /\ callbacks' = OnEvent(p)
    /\ armedAt' = [armedAt EXCEPT ![p] = ArmedAt(timerC[p], @, burst[p] + 1)]
    /\ UNCHANGED <<newServerVars, meshVars, file, lastBurst, running, writes,
                   startVars, warnings, crashed>>
    /\ UNCHANGED <<proxyVars, builtVars, routed>>

\* time.After(100 * time.Millisecond) delivers
DebounceExpires(p) ==
    /\ Watching(p)
    /\ timerC[p] = "armed"
    /\ timerC' = [timerC EXCEPT ![p] = "fired"]
    /\ UNCHANGED <<newServerVars, meshVars, file, events, burst, lastBurst,
                   callbacks, running, writes, startVars, warnings, crashed>>
    /\ UNCHANGED <<proxyVars, builtVars, armedAt, routed>>

\* a timer branch that leaves the delivered timer channel in timerC
TimerBranchKeepsTimer(p) ==
    /\ Watching(p)
    /\ AtSelect(p)
    /\ timerC[p] = "fired"
    /\ timerC' = [timerC EXCEPT ![p] = "spent"]
    /\ callbacks' = [callbacks EXCEPT ![p] = @ + 1]
    /\ running' = [running EXCEPT ![p] = @ + 1]
    /\ lastBurst' = [lastBurst EXCEPT ![p] = burst[p]]
    /\ burst' = [burst EXCEPT ![p] = 0]
    /\ armedAt' = [armedAt EXCEPT ![p] = 0]
    /\ UNCHANGED <<file, events, writes>>

\* case <-timerC: timerC = nil, and the callback is called
TimerBranch(p) ==
    /\ Watching(p)
    /\ AtSelect(p)
    /\ timerC[p] = "fired"
    /\ timerC' = [timerC EXCEPT ![p] = "nil"]
    /\ callbacks' = [callbacks EXCEPT ![p] = @ + 1]
    /\ running' = [running EXCEPT ![p] = @ + 1]
    /\ lastBurst' = [lastBurst EXCEPT ![p] = burst[p]]
    /\ burst' = [burst EXCEPT ![p] = 0]
    /\ armedAt' = [armedAt EXCEPT ![p] = 0]
    /\ UNCHANGED <<file, events, writes>>

\* !reflect.DeepEqual(new, cur)
Changed(new, cur) == ~DeepEqual(new, cur)

InstallOnFailure(r, cur) == r.cfg

\* what a reload leaves installed when its read returned r
Installed(r, cur) == IF r.err \/ ~Changed(r.cfg, cur) THEN cur ELSE r.cfg

RewiredController(cc, old, new) ==
    IF ConfigSources(new) # ConfigSources(old)
    THEN MakeCache([i \in 1..Len(ConfigSources(new)) |->
                      Store("memory", ConfigSources(new)[i].Address)])
    ELSE cc

\* the config controller after a reload replaced the mesh old by new: when
\* the ConfigSources differ the callback logs it and rebuilds nothing
\* (TODO Need to re-create or reload initConfigController())
ReloadedController(cc, old, new) == cc

\* the callback initMesh registers
MeshReload ==
    /\ TimerBranch(MeshFile)
    /\ LET r == ReadConfig(file[MeshFile], nextRef)
           new == Installed(r, mesh)
           install == ~r.err /\ Changed(r.cfg, mesh)
       IN /\ nextRef' = nextRef + 1
          /\ meshConfig' = r.cfg
          /\ warnings' = IF r.err
                         THEN warnings \cup {"reload: failed to read mesh"}
                         ELSE warnings
          /\ IF install /\ mesh = NoMesh
             THEN \* s.mesh.ConfigSources on a nil s.mesh
                  /\ crashed' = TRUE
                  /\ UNCHANGED <<mesh, env, pushes, pushedWith>>
             ELSE /\ crashed' = crashed
                  /\ mesh' = new
                  /\ IF install /\ env # NoEnv
                     THEN /\ env' = [env EXCEPT !.Mesh = new]
                          /\ pushes' = pushes + 1
                          /\ pushedWith' = [lookup |-> lookup, env |-> env']
                     ELSE UNCHANGED <<env, pushes, pushedWith>>
          /\ configController' =
                IF install /\ mesh # NoMesh
                THEN ReloadedController(configController, mesh, new)
                ELSE configController
    /\ UNCHANGED <<newServerVars, meshNetworks, lookup, startVars>>
    /\ UNCHANGED <<proxyVars, ServiceController, mcp, certs,
                   certController, routed>>

PushBeforeRebind ==
    <<"install", "env", "ConfigUpdate", "kubeRegistry", "multicluster">>

\* what the mesh-networks callback does once it has seen a change, in the
\* order of its statements
NetworksReloadSteps ==
    <<"install", "kubeRegistry", "multicluster", "env", "ConfigUpdate">>

\* one statement of the mesh-networks callback, on the fields st of the
\* Server, with the resolved object new
ReloadStep(st, step, new) ==
    CASE step = "install" -> [st EXCEPT !.meshNetworks = new]
      [] step \in {"kubeRegistry", "multicluster"} ->
            IF st.lookup[step] = NoRegistry THEN st
            ELSE [st EXCEPT !.lookup[step] = new]
      [] step = "env" ->
            IF st.env = NoEnv THEN st
            ELSE [st EXCEPT !.env.MeshNetworks = new]
      [] OTHER ->
            IF st.env = NoEnv THEN st
            ELSE [st EXCEPT !.pushes = @ + 1,
                            !.pushedWith = [lookup |-> st.lookup,
                                            env |-> st.env]]

RECURSIVE RunReloadSteps(_, _, _)
RunReloadSteps(st, steps, new) ==
    IF steps = << >> THEN st
    ELSE RunReloadSteps(ReloadStep(st, Head(steps), new), Tail(steps), new)

\* the callback initMeshNetworks registers
MeshNetworksReload ==
    /\ TimerBranch(NetworksFile)
    /\ LET r == ReadConfig(file[NetworksFile], nextRef)
           install == ~r.err /\ Changed(r.cfg, meshNetworks)
           st == [meshNetworks |-> meshNetworks, lookup |-> lookup,
                  env |-> env, pushes |-> pushes, pushedWith |-> pushedWith]
           end == IF install
                  THEN RunReloadSteps(st, NetworksReloadSteps,
                                      ResolveHostsInNetworksConfig(r.cfg))
                  ELSE st
       IN /\ nextRef' = nextRef + 1
          /\ warnings' = IF r.err
                         THEN warnings \cup
                                {"reload: failed to read mesh networks"}
                         ELSE warnings
          /\ meshNetworks' = end.meshNetworks
          /\ lookup' = end.lookup
          /\ env' = end.env
          /\ pushes' = end.pushes
          /\ pushedWith' = end.pushedWith
    /\ UNCHANGED <<newServerVars, mesh, meshConfig, startVars, crashed>>
    /\ UNCHANGED <<proxyVars, builtVars, routed>>

\* callback() returns to the debounce loop of p, which goes round to its
\* select; a callback that panicked does not return
CallbackReturns(p) ==
    /\ Watching(p)
    /\ running[p] > 0
    /\ running' = [running EXCEPT ![p] = @ - 1]
    /\ UNCHANGED <<newServerVars, meshVars, file, events, timerC, burst,
                   lastBurst, callbacks, writes, startVars, warnings,
                   crashed>>
    /\ UNCHANGED <<proxyVars, builtVars, armedAt, routed>>

(***************************************************************************)
(* Pilot server: Start, stop and the goroutines of the start actions       *)
(***************************************************************************)

\* the caller calls Start(stop) on the Server NewServer returned
StartCall ==
    /\ At("returned")
    /\ startRet = "notcalled"
    /\ startRet' = "running"
    /\ UNCHANGED <<newServerVars, meshVars, watchVars, started, stop, stopAt, synced,
                   task, calls, warnings, crashed>>
    /\ UNCHANGED <<proxyVars, builtVars, armedAt, routed>>

\* the start action of initMCPConfigController: wg.Add(1) and
\* go func() { client.Run(ctx); wg.Done() }() for every client
Spawned(m) == [m EXCEPT !.clients = [i \in DOMAIN @ |-> "running"]]

NextStartFuncLast(fns, done) == fns[Len(fns) - Len(done)]

\* for _, fn := range s.startFuncs
NextStartFunc(fns, done) == fns[Len(done) + 1]

\* if err := fn(stop); err != nil { return err }
AfterStartError == "error"

\* Start invokes the next start action, which returns ok or an error; only
\* the monitor's start action has a failing path (startMonitor)
StartInvoke(ok) ==
    /\ Alive
    /\ startRet = "running"
    /\ Len(started) < Len(startFuncs)
    /\ LET fn == NextStartFunc(startFuncs, started) IN
       /\ fn # "monitor" => ok
       /\ started' = Append(started, fn)
       /\ startRet' = IF ok THEN startRet ELSE AfterStartError
       /\ task' = IF ok THEN [task EXCEPT ![fn] = "running"] ELSE task
       /\ mcp' = IF fn = "mcp" THEN Spawned(mcp) ELSE mcp
    /\ UNCHANGED <<newServerVars, meshVars, watchVars, stop, stopAt, synced, calls,
                   warnings, crashed>>
    /\ UNCHANGED <<proxyVars, configController, ServiceController, certs,
                   certController, armedAt, routed>>

\* the range loop is over: return nil
StartReturn ==
    /\ Alive
    /\ startRet = "running"
    /\ Len(started) = Len(startFuncs)
    /\ startRet' = "nil"
    /\ UNCHANGED <<newServerVars, meshVars, watchVars, started, stop, stopAt, synced,
                   task, calls, warnings, crashed>>
    /\ UNCHANGED <<proxyVars, builtVars, armedAt, routed>>

\* the caller closes the stop channel
CloseStop ==
    /\ Alive
    /\ nsPc # "idle"
    /\ ~stop
    /\ stop' = TRUE
    /\ stopAt' = (startRet = "nil")
    /\ UNCHANGED <<newServerVars, meshVars, watchVars, started, startRet,
                   synced, task, calls, warnings, crashed>>
    /\ UNCHANGED <<proxyVars, builtVars, armedAt, routed>>

Caches == {"config", "kube"}

\* HasSynced of a cache becomes true; the kube cache is kubeRegistry's
CacheSynced(c) ==
    /\ At("returned")
    /\ c = "kube" => lookup.kubeRegistry # NoRegistry
    /\ c \notin synced
    /\ synced' = synced \cup {c}
    /\ UNCHANGED <<newServerVars, meshVars, watchVars, started, startRet,
                   stop, stopAt, task, calls, warnings, crashed>>
    /\ UNCHANGED <<proxyVars, builtVars, armedAt, routed>>

\* the condition waitForCacheSync polls
HasSynced ==
    /\ lookup.kubeRegistry # NoRegistry => "kube" \in synced
    /\ "config" \in synced

\* a goroutine that runs until it reads the closed stop channel:
\* configController.Run, ServiceController.Run, the discovery server's
\* loops, the monitor's closer, certController.Run
ControllerExits(t) ==
    /\ Alive
    /\ t \in Controllers \ {"mcp"}
    /\ task[t] = "running"
    /\ stop
    /\ task' = [task EXCEPT ![t] = "exited"]
    /\ UNCHANGED <<newServerVars, meshVars, watchVars, started, startRet,
                   stop, stopAt, synced, calls, warnings, crashed>>
    /\ UNCHANGED <<proxyVars, builtVars, armedAt, routed>>

\* the goroutine of the MCP start action has read the closed stop channel:
\* cancel()
MCPCancel ==
    /\ Alive
    /\ task["mcp"] = "running"
    /\ stop
    /\ task' = [task EXCEPT !["mcp"] = "cancelled"]
    /\ UNCHANGED <<newServerVars, meshVars, watchVars, started, startRet,
                   stop, stopAt, synced, calls, warnings, crashed>>
    /\ UNCHANGED <<proxyVars, builtVars, armedAt, routed>>

\* client.Run(ctx) returns once ctx is cancelled, and wg.Done() follows
ClientExits(i) ==
    /\ Alive
    /\ i \in DOMAIN mcp.clients
    /\ mcp.clients[i] = "running"
    /\ CtxDone
    /\ mcp' = [mcp EXCEPT !.clients[i] = "exited"]
    /\ UNCHANGED <<newServerVars, meshVars, watchVars, startVars, warnings,
                   crashed, configController, ServiceController, certs,
                   certController>>
    /\ UNCHANGED <<proxyVars, armedAt, routed>>

WgWaitNone(clients) == TRUE

\* wg.Wait() returns: every goroutine the start action added is done
WgWait(clients) == \A i \in DOMAIN clients : clients[i] = "exited"

\* wg.Wait() of the goroutine of the MCP start action returns
MCPWaited ==
    /\ Alive
    /\ task["mcp"] = "cancelled"
    /\ WgWait(mcp.clients)
    /\ task' = [task EXCEPT !["mcp"] = "closing"]
    /\ UNCHANGED <<newServerVars, meshVars, watchVars, started, startRet,
                   stop, stopAt, synced, calls, warnings, crashed>>
    /\ UNCHANGED <<proxyVars, builtVars, armedAt, routed>>

\* for _, conn := range conns { _ = conn.Close() }: the next connection is
\* closed, or the loop is over and the goroutine ends
MCPCloseConn ==
    /\ Alive
    /\ task["mcp"] = "closing"
    /\ LET open == {i \in DOMAIN mcp.conns : mcp.conns[i] = "open"} IN
       IF open = {}
       THEN /\ task' = [task EXCEPT !["mcp"] = "exited"]
            /\ UNCHANGED mcp
       ELSE /\ mcp' = [mcp EXCEPT
                         !.conns[CHOOSE i \in open :
                                    \A j \in open : i <= j] = "closed"]
            /\ UNCHANGED task
    /\ UNCHANGED <<newServerVars, meshVars, watchVars, started, startRet,
                   stop, stopAt, synced, calls, warnings, crashed,
                   configController, ServiceController, certs,
                   certController>>
    /\ UNCHANGED <<proxyVars, armedAt, routed>>

WaitSkipped == TRUE

\* waitForCacheSync returns true only if the polled condition held
WaitPassed == HasSynced

\* the goroutines a discovery start action spawns after the wait
ServersOf(w) == IF w = "discovery" THEN {"httpServe", "grpcServe"}
                ELSE {"secureServe"}
CloserOf(w) == IF w = "discovery" THEN "shutdown" ELSE "secureShutdown"

\* waitForCacheSync returns true: the serve and shutdown goroutines are
\* spawned and the waiting goroutine ends
WaitSynced(w) ==
    /\ Alive
    /\ task[w] = "running"
    /\ WaitPassed
    /\ task' = [t \in Tasks |->
                  CASE t = w -> "exited"
                    [] t \in ServersOf(w) -> "spawned"
                    [] t = CloserOf(w) -> "running"
                    [] OTHER -> task[t]]
    /\ UNCHANGED <<newServerVars, meshVars, watchVars, started, startRet,
                   stop, stopAt, synced, calls, warnings, crashed>>
    /\ UNCHANGED <<proxyVars, builtVars, armedAt, routed>>

\* waitForCacheSync returns false: stop was closed first
WaitStopped(w) ==
    /\ Alive
    /\ task[w] = "running"
    /\ stop
    /\ task' = [task EXCEPT ![w] = "exited"]
    /\ warnings' = warnings \cup {"Failed waiting for cache sync"}
    /\ UNCHANGED <<newServerVars, meshVars, watchVars, started, startRet,
                   stop, stopAt, synced, calls, crashed>>
    /\ UNCHANGED <<proxyVars, builtVars, armedAt, routed>>

\* a call on one of the servers, and the goroutine that made it
Call(by, c) == [by |-> by, call |-> c]
Called(c) == \E x \in calls : x.call = c

ServeCall(t) == CASE t = "httpServe" -> "http.Serve"
                  [] t = "grpcServe" -> "grpc.Serve"
                  [] OTHER -> "secure.ServeTLS"

\* the calls that make a Serve return
StopCalls(t) == CASE t = "httpServe" -> {"http.Shutdown"}
                  [] t = "grpcServe" -> {"grpc.GracefulStop", "grpc.Stop"}
                  [] OTHER -> {"secure.Shutdown"}

\* s.httpServer.Serve(listener) / s.grpcServer.Serve(grpcListener) /
\* s.secureHTTPServer.ServeTLS(secureGrpcListener, "", "")
Serve(t) ==
    /\ Alive
    /\ t \in Servers
    /\ task[t] = "spawned"
    /\ task' = [task EXCEPT ![t] = "running"]
    /\ calls' = calls \cup {Call(t, ServeCall(t))}
    /\ UNCHANGED <<newServerVars, meshVars, watchVars, started, startRet,
                   stop, stopAt, synced, warnings, crashed>>
    /\ UNCHANGED <<proxyVars, builtVars, armedAt, routed>>

\* where a serve goroutine is after its Serve returned: the plain ones log
\* the error and end, the secure one goes on to its select on stop
AfterServe(t) == IF t = "secureServe" THEN "returned" ELSE "exited"

\* Serve returns once its server was shut down or stopped
ServeReturns(t) ==
    /\ Alive
    /\ t \in Servers
    /\ task[t] = "running"
    /\ \E c \in StopCalls(t) : Called(c)
    /\ task' = [task EXCEPT ![t] = AfterServe(t)]
    /\ UNCHANGED <<newServerVars, meshVars, watchVars, started, startRet,
                   stop, stopAt, synced, calls, warnings, crashed>>
    /\ UNCHANGED <<proxyVars, builtVars, armedAt, routed>>

\* Serve returns an error of its own accord: its listener failed
ServeFails(t) ==
    /\ Alive
    /\ t \in Servers
    /\ task[t] = "running"
    /\ task' = [task EXCEPT ![t] = AfterServe(t)]
    /\ UNCHANGED <<newServerVars, meshVars, watchVars, started, startRet,
                   stop, stopAt, synced, calls, warnings, crashed>>
    /\ UNCHANGED <<proxyVars, builtVars, armedAt, routed>>

PanicsAlways(stopped) == TRUE

\* select { case <-stop: log.Info(msg); default: panic(...) }
Panics(stopped) == ~stopped

\* the select of the secure serve goroutine after ServeTLS returned
SecureSelect ==
    /\ Alive
    /\ task["secureServe"] = "returned"
    /\ crashed' = Panics(stop)
    /\ task' = IF Panics(stop) THEN task
               ELSE [task EXCEPT !["secureServe"] = "exited"]
    /\ UNCHANGED <<newServerVars, meshVars, watchVars, started, startRet,
                   stop, stopAt, synced, calls, warnings>>
    /\ UNCHANGED <<proxyVars, builtVars, armedAt, routed>>

\* strings.HasPrefix
HasPrefix(str, prefix) ==
    /\ Len(prefix) <= Len(str)
    /\ \A i \in 1..Len(prefix) : str[i] = prefix[i]

HandlerByContentType(r) ==
    IF HasPrefix(r.ContentType, <<"application/", "grpc">>)
    THEN "secureGRPCServer" ELSE "mux"

\* the handler of secureHTTPServer: r.ProtoMajor == 2 &&
\* strings.HasPrefix(r.Header.Get("Content-Type"), "application/grpc")
Handler(r) ==
    IF r.ProtoMajor = 2 /\ HasPrefix(r.ContentType, <<"application/", "grpc">>)
    THEN "secureGRPCServer" ELSE "mux"

\* a request arrives on the secure listener and is dispatched
SecureRequest(r) ==
    /\ Alive
    /\ task["secureServe"] = "running"
    /\ routed' = [handler |-> Handler(r), ProtoMajor |-> r.ProtoMajor,
                  ContentType |-> r.ContentType]
    /\ UNCHANGED <<newServerVars, meshVars, watchVars, startVars, warnings,
                   crashed>>
    /\ UNCHANGED <<proxyVars, builtVars, armedAt>>

GrpcStopNeverForced(force) == "grpc.GracefulStop"

\* if args.ForceStop { s.grpcServer.Stop() } else { s.grpcServer.GracefulStop() }
GrpcStop(force) == IF force THEN "grpc.Stop" ELSE "grpc.GracefulStop"

\* what the shutdown goroutine of the plain listeners calls after <-stop
ShutdownSteps == <<"http.Shutdown", "grpc">>

\* what the shutdown goroutine of the secure listener calls after <-stop
SecureShutdownSteps == <<"grpc", "secure.Shutdown", "secureGrpc.Stop">>

StepsOf(c) == IF c = "shutdown" THEN ShutdownSteps ELSE SecureShutdownSteps

\* the position of a shutdown goroutine: "running" before <-stop returns,
\* then the number of calls it has made
Position(c) == CASE task[c] = "running" -> 0
                 [] task[c] = "called1" -> 1
                 [] task[c] = "called2" -> 2
                 [] OTHER -> -1

\* a shutdown goroutine makes its next call; the first one needs stop closed
Shutdown(c) ==
    /\ Alive
    /\ c \in Closers
    /\ Position(c) >= 0
    /\ Position(c) = 0 => stop
    /\ LET n == Position(c) + 1
           step == StepsOf(c)[n]
       IN /\ calls' = calls \cup
                        {Call(c, IF step = "grpc" THEN GrpcStop(args.ForceStop)
                                 ELSE step)}
          /\ task' = [task EXCEPT ![c] =
                         IF n = Len(StepsOf(c)) THEN "exited"
                         ELSE IF n = 1 THEN "called1" ELSE "called2"]
    /\ UNCHANGED <<newServerVars, meshVars, watchVars, started, startRet,
                   stop, stopAt, synced, warnings, crashed>>
    /\ UNCHANGED <<proxyVars, builtVars, armedAt, routed>>

\* the arguments the reload specification constructs servers from: ForceStop
\* and SecureGrpcAddr are read by the shutdown goroutines and by
\* initDiscoveryService's secure branch only; the registries are Consul, or
\* Kubernetes and Consul
ReloadArgs ==
    {a \in [MeshConfig : BOOLEAN, Sources : {<< >>}, Ingress : {FALSE},
            ConfigFile : BOOLEAN, NetworksConfigFile : BOOLEAN,
            Registries : {<<"Consul">>, <<"Kubernetes", "Consul">>},
            Controller : {FALSE}, FileDir : {FALSE}, ForceStop : {FALSE},
            SecureGrpcAddr : {FALSE},
     Certificates : {<< >>}] :
        a.MeshConfig => ~a.ConfigFile}

\* the arguments the start specification constructs servers from: both
\* files are named and hold a configuration, so both debounce loops run; or
\* the mesh is handed in and declares a certificate, so that the
\* certificate controller registers a start action after the monitor's
StartArgs ==
    [MeshConfig : {FALSE}, Sources : {<< >>}, Ingress : {FALSE},
     ConfigFile : {TRUE}, NetworksConfigFile : {TRUE},
     Registries : {<<"Consul">>, <<"Kubernetes", "Consul">>},
     Controller : {FALSE}, FileDir : {FALSE}, ForceStop : BOOLEAN,
     SecureGrpcAddr : BOOLEAN,
     Certificates : {<< >>}]
    \cup
    [MeshConfig : {TRUE}, Sources : {<< >>}, Ingress : {FALSE},
     ConfigFile : {FALSE}, NetworksConfigFile : {TRUE},
     Registries : {<<"Kubernetes", "Consul">>},
     Controller : {FALSE}, FileDir : {FALSE}, ForceStop : {FALSE},
     SecureGrpcAddr : {FALSE},
     Certificates : {<<[DnsNames |-> "a", SecretName |-> "s"]>>}]

\* the arguments the composition specification constructs servers from.
\* The caller hands in the mesh: any list of sources, with or without an
\* override controller; or at most one source with every other way to a
\* config store, either ingress mode, with and without Kubernetes.  Or the
\* mesh is the default one and the registries are any list.  Or the mesh
\* handed in declares certificates, with and without Kubernetes.
ComposeArgs ==
    [MeshConfig : {TRUE}, Sources : SeqsUpTo(Sources, MaxSources),
     Ingress : {FALSE},
     ConfigFile : {FALSE}, NetworksConfigFile : {FALSE},
     Registries : {<< >>},
     Controller : BOOLEAN, FileDir : {FALSE}, ForceStop : {FALSE},
     SecureGrpcAddr : {FALSE},
     Certificates : {<< >>}]
    \cup
    [MeshConfig : {TRUE}, Sources : SeqsUpTo(Sources, 1), Ingress : BOOLEAN,
     ConfigFile : {FALSE}, NetworksConfigFile : {FALSE},
     Registries : {<< >>, <<"Kubernetes">>},
     Controller : BOOLEAN, FileDir : BOOLEAN, ForceStop : {FALSE},
     SecureGrpcAddr : {FALSE},
     Certificates : {<< >>}]
    \cup
    [MeshConfig : {FALSE}, Sources : {<< >>}, Ingress : {FALSE},
     ConfigFile : {FALSE}, NetworksConfigFile : {FALSE},
     Registries : SeqsUpTo(RegistryNames, MaxRegistries),
     Controller : {TRUE}, FileDir : {FALSE}, ForceStop : {FALSE},
     SecureGrpcAddr : {FALSE},
     Certificates : {<< >>}]
    \cup
    [MeshConfig : {TRUE}, Sources : {<< >>}, Ingress : {FALSE},
     ConfigFile : {FALSE}, NetworksConfigFile : {FALSE},
     Registries : {<< >>, <<"Kubernetes">>},
     Controller : {TRUE}, FileDir : {FALSE}, ForceStop : {FALSE},
     SecureGrpcAddr : {FALSE},
     Certificates : SeqsUpTo(CertEntries, MaxCerts)]

\* the arguments the secure-listener specification constructs servers from
SecureArgs ==
    [MeshConfig : {FALSE}, Sources : {<< >>}, Ingress : {FALSE},
     ConfigFile : {FALSE}, NetworksConfigFile : {FALSE},
     Registries : {<< >>},
     Controller : {TRUE}, FileDir : {FALSE}, ForceStop : {FALSE},
     SecureGrpcAddr : {TRUE},
     Certificates : {<< >>}]

InitNext ==
    \/ \E ok \in BOOLEAN : InitKubeClient(ok)
    \/ InitMesh
    \/ \E ok \in BOOLEAN : InitMeshDefault(ok)
    \/ InitMeshNetworks
    \/ \E how \in {"ok", "kubeError", "wrapError", "noSyncer"} :
          InitConfigController(how)
    \/ \E consulOk \in BOOLEAN : InitServiceControllers(consulOk)
    \/ \E how \in {"ok", "discovery", "listen", "secure"} :
          InitDiscoveryService(how)
    \/ InitMonitor
    \/ \E ok \in BOOLEAN : InitClusterRegistries(ok)
    \/ \E how \in {"ok", "mkdirError", "genError", "ctorError"} :
          InitCertController(how)

\* the loop of initMCPConfigController
MCPNext ==
    \/ \E how \in {"ok", "dialError"} : MCPSource(how)
    \/ \E how \in {"ok", "cacheError", "wrapError", "noSyncer"} : MCPDone(how)

\* NewServer and the file watcher: construction, file changes, reloads
ServerNext ==
    \/ \E a \in ReloadArgs, mtext \in BootContents, ntext \in BootContents :
          NewServerCall(a, mtext, ntext)
    \/ InitNext
    \/ MCPNext
    \/ \E p \in Paths, text \in Contents : FileWrite(p, text)
    \/ \E p \in Paths : WatchEvent(p)
    \/ \E p \in Paths : DebounceExpires(p)
    \/ MeshReload
    \/ MeshNetworksReload
    \/ \E p \in Paths : CallbackReturns(p)

ServerSpec == Init /\ [][ServerNext]_vars

\* Start, stop and the goroutines of the start actions
LifecycleNext ==
    \/ StartCall
    \/ \E ok \in BOOLEAN : StartInvoke(ok)
    \/ StartReturn
    \/ CloseStop
    \/ \E c \in Caches : CacheSynced(c)
    \/ \E t \in Controllers : ControllerExits(t)
    \/ \E w \in Waiters : WaitSynced(w)
    \/ \E w \in Waiters : WaitStopped(w)
    \/ \E t \in Servers : Serve(t)
    \/ \E t \in Servers : ServeReturns(t)
    \/ SecureSelect
    \/ \E c \in Closers : Shutdown(c)

\* NewServer, Start and stop.  No file is rewritten here: a reload reads and
\* writes none of startFuncs, started, startRet, stop, synced, task and
\* calls, and the one way it ends the process (s.mesh still nil) needs
\* NewServer to be inside initMesh.
StartNext ==
    \/ \E a \in StartArgs : NewServerCall(a, "m1", "m1")
    \/ InitNext
    \/ LifecycleNext

StartSpec == Init /\ [][StartNext]_vars

\* the arguments the remote-config specification constructs servers from:
\* the mesh is handed in with one to MaxSources sources, each a directory
\* or a server dialed without TLS
RemoteArgs ==
    [MeshConfig : {TRUE},
     Sources : SeqsUpTo({FsSource, [Address |-> "B:9901", TlsSettings |-> "nil"]},
                        MaxSources) \ {<< >>},
     Ingress : {FALSE},
     ConfigFile : {FALSE}, NetworksConfigFile : {FALSE},
     Registries : {<< >>},
     Controller : {FALSE}, FileDir : {FALSE}, ForceStop : {FALSE},
     SecureGrpcAddr : {FALSE},
     Certificates : {<< >>}]
    \cup SecureArgs

\* a server with remote config sources: NewServer, Start and stop, the
\* clients and the connections of the sources
RemoteNext ==
    \/ \E a \in RemoteArgs : NewServerCall(a, "m1", "m1")
    \/ InitNext
    \/ MCPNext
    \/ LifecycleNext
    \/ MCPCancel
    \/ \E i \in 1..MaxSources : ClientExits(i)
    \/ MCPWaited
    \/ MCPCloseConn

RemoteSpec == Init /\ [][RemoteNext]_vars

\* NewServer alone, over the ways to compose the config store and the
\* service registries
ComposeNext ==
    \/ \E a \in ComposeArgs : NewServerCall(a, "m1", "m1")
    \/ InitNext
    \/ MCPNext
    \/ MCPCertStat
    \/ MCPCertSelect
    \/ \E how \in {"ok", "error"} : MCPDial(how)
    \/ \E i \in 1..Len(RequiredFiles) : CreateCredential(RequiredFiles[i])

ComposeSpec == Init /\ [][ComposeNext]_vars

\* a server with a secure listener: NewServer, Start and stop, requests on
\* the secure listener and listeners that fail
SecureNext ==
    \/ \E a \in SecureArgs : NewServerCall(a, "m1", "m1")
    \/ InitNext
    \/ LifecycleNext
    \/ \E t \in Servers : ServeFails(t)
    \/ \E r \in Requests : SecureRequest(r)

SecureSpec == Init /\ [][SecureNext]_vars

(***************************************************************************)
(* Scheduling of the server.  A goroutine that can take a step of its own  *)
(* code eventually takes it: Start goes on through its loop, a goroutine   *)
(* blocked on the stop channel runs once it is closed, a Serve returns     *)
(* once its server was shut down.  Nothing is assumed of the caller        *)
(* (NewServerCall, StartCall, CloseStop), of the caches (CacheSynced) or   *)
(* of the steps of NewServer.                                              *)
(***************************************************************************)
StartFairness ==
    /\ WF_vars(StartReturn \/ \E ok \in BOOLEAN : StartInvoke(ok))
    /\ \A t \in Controllers : WF_vars(ControllerExits(t))
    /\ \A w \in Waiters : WF_vars(WaitSynced(w) \/ WaitStopped(w))
    /\ \A t \in Servers : WF_vars(Serve(t) \/ ServeReturns(t))
    /\ WF_vars(SecureSelect)
    /\ \A c \in Closers : WF_vars(Shutdown(c))

FairStartSpec == StartSpec /\ StartFairness

\* The same with the caller free to close its stop channel at any time.
\* NewServer runs on the caller's goroutine and goes on while it has a step
\* to take: a timer of the credential wait delivers, a stat returns.
\* Nothing is assumed of the caller or of the files.
FairComposeSpec ==
    /\ Init
    /\ [][ComposeNext \/ CloseStop]_vars
    /\ WF_vars(InitNext \/ MCPNext \/ MCPCertStat \/ MCPCertSelect
                 \/ \E how \in {"ok", "error"} : MCPDial(how))

(***************************************************************************)
(* Properties of the server                                                *)
(***************************************************************************)

IsPrefix(a, b) == Len(a) <= Len(b) /\ \A i \in 1..Len(a) : a[i] = b[i]

\* C11: Start invokes the registered start actions one by one in the order
\* of their registration (what was invoked is always a prefix of
\* startFuncs, extended by one action per step); once an action has
\* returned an error Start has returned it, the failing action spawned
\* nothing and no later action is ever invoked; when Start returns nil
\* every registered action was invoked exactly once.
C11_StartInOrder ==
    /\ [](/\ IsPrefix(started, startFuncs)
          /\ startRet = "nil" =>
                /\ started = startFuncs
                /\ \A i \in 1..Len(started) : task[started[i]] # "none"
          /\ startRet = "error" =>
                /\ started # << >>
                /\ task[started[Len(started)]] = "none")
    /\ [][/\ started' # started =>
                /\ startRet = "running"
                /\ Len(started') = Len(started) + 1
          /\ startRet \in {"nil", "error"} =>
                /\ started' = started
                /\ startRet' = startRet]_vars

C11_Witness ==
    /\ startRet = "error"
    /\ started = <<"configController", "serviceController", "xdsStart",
                   "discovery", "monitor">>
    /\ Len(startFuncs) = Len(started) + 1
    /\ task["discovery"] = "exited"

\* C12: NewServer runs its init steps in the fixed order kube client, mesh,
\* mesh networks, config controller, service controllers, discovery
\* service, monitor, cluster registries, certificate controller; after the
\* first step that returns an error NewServer has returned it with no
\* Server and no later step ever runs; a Server is returned only after all
\* nine steps.
C12_InitOrder ==
    /\ [](/\ IsPrefix(initRan,
                      <<"initKubeClient", "initMesh", "initMeshNetworks",
                        "initConfigController", "initServiceControllers",
                        "initDiscoveryService", "initMonitor",
                        "initClusterRegistries", "initCertController">>)
          /\ nsPc = "returned" => Len(initRan) = 9 /\ initErr = NoErr
          /\ initErr # NoErr =>
                /\ nsPc = "failed"
                /\ initRan[Len(initRan)] = initErr)
    /\ [][nsPc = "failed" => nsPc' = "failed" /\ initRan' = initRan]_vars

C12_Witness ==
    /\ nsPc = "failed"
    /\ initRan = <<"initKubeClient", "initMesh", "initMeshNetworks",
                   "initConfigController", "initServiceControllers">>
    /\ callbacks[MeshFile] > 0

\* initMesh could not read or parse the mesh file
InitReadFailed == "initMesh: failed to read" \in warnings

C14_ServeAfterSync ==
    \A w \in Waiters : \A t \in ServersOf(w) :
        (task[t] # "none" \/ Called(ServeCall(t))) =>
            /\ HasSynced
            /\ task[w] = "exited"
            /\ task[CloserOf(w)] # "none"

C14_Witness ==
    /\ task["httpServe"] = "running"
    /\ task["grpcServe"] = "running"
    /\ task["secureServe"] = "running"
    /\ lookup.kubeRegistry # NoRegistry
    /\ ~stop

\* args.ForceStop of the server under construction or constructed
ForceStop == args # NoArgs /\ args.ForceStop

\* the shutdown goroutine of the plain listeners has made call c
ShutdownCalled(c) == Call("shutdown", c) \in calls

\* C15 as stated: on a server on which Start has returned nil, closing the
\* stop channel leads to HTTP Shutdown and then to GracefulStop on the gRPC
\* server, or to Stop when ForceStop is set.
C15_Original ==
    (startRet = "nil" /\ stop /\ stopAt)
        ~> (ShutdownCalled("http.Shutdown") /\ ShutdownCalled(GrpcStop(ForceStop)))

\* C15: on a server on which Start has returned nil and whose
\* waitForCacheSync has returned true (the shutdown goroutine exists),
\* closing the stop channel leads to that goroutine calling HTTP Shutdown
\* and then GracefulStop on the gRPC server, or Stop instead of GracefulStop
\* exactly when ForceStop is set; it never stops the gRPC server before it
\* has called Shutdown.
C15_ShutdownWhenServing ==
    /\ (startRet = "nil" /\ task["shutdown"] # "none" /\ stop)
          ~> (ShutdownCalled("http.Shutdown")
                /\ ShutdownCalled(GrpcStop(ForceStop)))
    /\ [](\A x \in calls :
             x.call \in {"grpc.Stop", "grpc.GracefulStop"} =>
                /\ x.call = "grpc.Stop" <=> ForceStop
                /\ x.by = "shutdown" => ShutdownCalled("http.Shutdown"))

C15_Witness ==
    /\ startRet = "nil"
    /\ args.ForceStop
    /\ ShutdownCalled("http.Shutdown")
    /\ ShutdownCalled("grpc.Stop")
    /\ task["shutdown"] = "exited"

\* C16: after the stop channel is closed, every goroutine spawned by
\* NewServer or by a start action eventually exits.
C16_TasksExit ==
    stop ~> (\A t \in Tasks : task[t] \in {"none", "exited"})

\* NewServer has been called and has not returned
NewServerRunning == nsPc \notin {"idle", "returned", "failed"}

\* C17: no file-watcher callback runs, reading or writing Server fields,
\* while NewServer is still running.
C17_InitBeforeBackground ==
    [][\A p \in Paths :
          callbacks'[p] # callbacks[p] => ~NewServerRunning]_vars

\* C18: the debounce loop of a path calls the callback once per window:
\* only when the path's timer has fired, closing a window of N >= 1 events
\* received since the timer was armed, and receiving an event calls
\* nothing; neither step touches the timer, the window or the callback
\* count of another path.
C18_DebounceCollapse ==
    /\ [][\A p \in Paths :
            /\ callbacks'[p] # callbacks[p] =>
                  /\ callbacks'[p] = callbacks[p] + 1
                  /\ timerC[p] = "fired" /\ timerC'[p] = "nil"
                  /\ burst[p] >= 1 /\ lastBurst'[p] = burst[p] /\ burst'[p] = 0
                  /\ \A q \in Paths \ {p} :
                        /\ callbacks'[q] = callbacks[q]
                        /\ timerC'[q] = timerC[q]
                        /\ burst'[q] = burst[q]
            /\ events'[p] < events[p] =>
                  /\ callbacks' = callbacks
                  /\ burst'[p] = burst[p] + 1
                  /\ timerC'[p] # "nil"
                  /\ \A q \in Paths \ {p} :
                        /\ timerC'[q] = timerC[q]
                        /\ burst'[q] = burst[q]]_vars
    /\ [](\A p \in Paths : timerC[p] = "nil" <=> burst[p] = 0)

C18_Witness ==
    /\ callbacks[MeshFile] = 1
    /\ lastBurst[MeshFile] = 2
    /\ timerC[MeshFile] = "nil"
    /\ task[WatchTask(NetworksFile)] = "running"
    /\ callbacks[NetworksFile] = 0

\* the mesh callback runs in this step
MeshCallback == callbacks'[MeshFile] # callbacks[MeshFile]

\* C19: a mesh callback that re-reads the file successfully leaves the
\* snapshot and the push count unchanged if what it read deep-equals the
\* installed snapshot; otherwise it installs what it read on the Server and
\* on the discovery environment and requests exactly one full push.
C19_ReloadInstallsAndPushes ==
    [][MeshCallback =>
          LET r == ReadConfig(file[MeshFile], nextRef) IN
          \/ r.err
          \/ /\ DeepEqual(r.cfg, mesh)
             /\ mesh' = mesh /\ env' = env /\ pushes' = pushes
          \/ /\ ~DeepEqual(r.cfg, mesh)
             /\ mesh' = r.cfg
             /\ env' # NoEnv /\ env'.Mesh = r.cfg
             /\ pushes' = pushes + 1]_vars

\* the callback of path p runs in this step and its read fails
FailedReload(p) ==
    /\ callbacks'[p] # callbacks[p]
    /\ ReadConfig(file[p], nextRef).err

\* C20: a reload whose read of the mesh file or of the mesh-networks file
\* fails leaves the snapshots installed on the Server and on the discovery
\* environment as they were, rebinds no lookup table and requests no push.
C20_FailedReloadKeepsSnapshot ==
    [][(\E p \in Paths : FailedReload(p)) =>
          /\ mesh' = mesh /\ meshNetworks' = meshNetworks
          /\ env' = env /\ lookup' = lookup /\ pushes' = pushes]_vars

C20_Witness ==
    /\ nsPc = "returned"
    /\ "reload: failed to read mesh" \in warnings
    /\ "reload: failed to read mesh networks" \in warnings
    /\ mesh.val = "m1" /\ env.Mesh = mesh
    /\ meshNetworks.val = "m1" /\ env.MeshNetworks = meshNetworks
    /\ pushes = 0

\* C21: the mesh callback leaves the config controller, its children, the
\* loop of initMCPConfigController and the registered start actions as they
\* are, also when it installs a mesh whose ConfigSources differ from those
\* of the mesh it replaces; the config controller is written by
\* initConfigController only.
C21_ReloadKeepsConfigController ==
    [][/\ MeshCallback =>
            /\ configController' = configController
            /\ mcp' = mcp
            /\ startFuncs' = startFuncs
       /\ configController' # configController =>
            nsPc \in {"initConfigController", "initMCP"}]_vars

C21_Witness ==
    /\ nsPc = "returned"
    /\ mesh.val = "m2"
    /\ ConfigSources(mesh) = <<FsSource>>
    /\ env.Mesh = mesh
    /\ pushes = 1
    /\ configController = Store("kube", "")

\* initConfigController has returned nil
ConfigControllerBuilt ==
    /\ \E i \in 1..Len(initRan) : initRan[i] = "initConfigController"
    /\ nsPc \notin {"initConfigController", "initMCP", "mcpCertWait",
                    "mcpCertSleep", "mcpDial"}
    /\ initErr # "initConfigController"

\* the config controller is the aggregate of a store and the ingress
\* controller
IngressIsWrapped ==
    /\ configController.kind = "aggregate"
    /\ Len(configController.children) = 2
    /\ configController.children[2] = Store("ingress", "")

\* the store initConfigController chose, under the ingress wrap if any
ChosenStore ==
    IF IngressIsWrapped THEN configController.children[1]
    ELSE configController

Registers(fn) == \E i \in 1..Len(startFuncs) : startFuncs[i] = fn

\* C22: once initConfigController has returned nil, the store it chose is
\* an aggregate of memory stores and MCP controllers if the mesh has
\* ConfigSources; else the controller of the arguments if there is one;
\* else a memory store fed by a file monitor on the file directory if
\* there is one; else a Kubernetes config controller.  That store is
\* wrapped in an aggregate with the ingress controller exactly when the
\* registries name Kubernetes and the mesh's ingress controller mode is
\* not OFF.
C22_StoreByPrecedence ==
    ConfigControllerBuilt =>
        /\ IngressIsWrapped <=>
              (hasKubeRegistry(args) /\ IngressControllerOn(mesh))
        /\ Registers("configController")
        /\ IF ConfigSources(mesh) # << >>
           THEN /\ ChosenStore.kind = "aggregate"
                /\ \A i \in 1..Len(ChosenStore.children) :
                      ChosenStore.children[i].kind \in {"memory", "mcp"}
                /\ Registers("mcp")
           ELSE IF args.Controller
           THEN ChosenStore = Store("override", "") /\ ~Registers("fileMonitor")
           ELSE IF args.FileDir
           THEN ChosenStore = Store("memory", "FileDir")
                  /\ Registers("fileMonitor")
           ELSE ChosenStore = Store("kube", "") /\ ~Registers("fileMonitor")

C22_Witness ==
    /\ nsPc = "returned"
    /\ args.Controller /\ args.FileDir
    /\ ConfigSources(mesh) = << >>
    /\ configController =
          MakeCache(<<Store("override", ""), Store("ingress", "")>>)

\* the text of the address starts with "fs://"
FsAddress(src) == src.Address \in {"fs:///A", "fs://A", "fs://%zz"}

\* the child the claim expects for a source
ExpectedChild(src) ==
    IF FsAddress(src) THEN Store("memory", src.Address)
    ELSE Store("mcp", src.Address)

\* C23 as stated: once initConfigController has returned nil on a mesh with
\* ConfigSources, the aggregate has one child per source, in the order of
\* the sources: a memory store for an fs:// address, an MCP controller for
\* any other.
C23_Original ==
    (ConfigControllerBuilt /\ ConfigSources(mesh) # << >>) =>
        ChosenStore.children =
            [i \in 1..Len(ConfigSources(mesh)) |->
                ExpectedChild(ConfigSources(mesh)[i])]

\* the source gets a child: its address is an fs:// one, or it has no TLS
\* settings, or their mode is one of DISABLE, SIMPLE, MUTUAL, ISTIO_MUTUAL
HasChild(src) ==
    \/ FsAddress(src)
    \/ src.TlsSettings \in {"nil", "DISABLE", "SIMPLE", "MUTUAL",
                            "ISTIO_MUTUAL"}

\* C23: once initConfigController has returned nil on a mesh with
\* ConfigSources, the aggregate has one child, in the order of the sources,
\* per source that has an fs:// address or a TLS mode the loop knows (a
\* memory store fed by a file monitor for an fs:// address, an MCP
\* controller for any other), and one file monitor is registered per
\* memory store; a source with another address and an unknown TLS mode is
\* logged and gets no child.
C23_ChildPerKnownSource ==
    (ConfigControllerBuilt /\ ConfigSources(mesh) # << >>) =>
        LET kept == SelectSeq(ConfigSources(mesh), HasChild) IN
        /\ ChosenStore.children =
              [i \in 1..Len(kept) |-> ExpectedChild(kept[i])]
        /\ Len(SelectSeq(startFuncs, LAMBDA fn : fn = "fileMonitor"))
              = Len(SelectSeq(kept, FsAddress))
        /\ Len(kept) < Len(ConfigSources(mesh)) =>
              "invalid tls setting mode" \in warnings

C23_Witness ==
    /\ nsPc = "returned"
    /\ ConfigSources(mesh) =
          <<[Address |-> "B:9901", TlsSettings |-> "INVALID"], FsSource>>
    /\ configController = MakeCache(<<Store("memory", "fs:///A")>>)

\* initMCPConfigController is in its wait for the credential files
Polling == nsPc \in {"mcpCertWait", "mcpCertSleep"}

\* C24: once the stop channel is closed while initMCPConfigController waits
\* for a credential file, the wait ends.
C24_WaitCancellable == (Polling /\ stop) ~> ~Polling

\* initServiceControllers has returned nil
ServiceControllersBuilt ==
    /\ \E i \in 1..Len(initRan) : initRan[i] = "initServiceControllers"
    /\ initErr # "initServiceControllers"

RECURSIVE FirstOccurrences(_)
\* the names of a list, each once, in the order of their first occurrence
FirstOccurrences(names) ==
    IF names = << >> THEN << >>
    ELSE LET init == FirstOccurrences(SubSeq(names, 1, Len(names) - 1))
             last == names[Len(names)]
         IN IF \E i \in 1..Len(init) : init[i] = last THEN init
            ELSE Append(init, last)

RECURSIVE RegistriesOf(_)
\* the registries the names of a list stand for: Mock stands for the two
\* mock adapters, MCP for none, any other name for itself
RegistriesOf(names) ==
    IF names = << >> THEN << >>
    ELSE (CASE Head(names) = "Mock" -> <<"mockAdapter1", "mockAdapter2">>
            [] Head(names) = "MCP" -> << >>
            [] OTHER -> <<Head(names)>>)
         \o RegistriesOf(Tail(names))

\* C25: once initServiceControllers has returned nil, no registry is in the
\* aggregate twice: the named registries in it are those of the names of
\* args.Service.Registries, each name taken once, in the order of the first
\* occurrences; a warning was logged exactly if a name occurs twice; and
\* the list Kubernetes, Kubernetes gives the aggregate Kubernetes,
\* ServiceEntries.
C25_RegistryOnce ==
    ServiceControllersBuilt =>
        /\ \A i, j \in 1..Len(ServiceController) :
              ServiceController[i] = ServiceController[j] => i = j
        /\ SubSeq(ServiceController, 1, Len(ServiceController) - 1)
              = RegistriesOf(FirstOccurrences(args.Registries))
        /\ "registry specified multiple times" \in warnings
              <=> \E i, j \in 1..Len(args.Registries) :
                     i # j /\ args.Registries[i] = args.Registries[j]
        /\ args.Registries = <<"Kubernetes", "Kubernetes">> =>
              ServiceController = <<"Kubernetes", "ServiceEntries">>

C25_Witness ==
    /\ nsPc = "returned"
    /\ args.Registries = <<"Kubernetes", "Mock", "Kubernetes">>
    /\ ServiceController =
          <<"Kubernetes", "mockAdapter1", "mockAdapter2", "ServiceEntries">>
    /\ "registry specified multiple times" \in warnings

\* C26: once initServiceControllers has returned nil, the ServiceEntries
\* registry is the last registry of the aggregate and no other one,
\* whatever args.Service.Registries is.
C26_ServiceEntriesLast ==
    ServiceControllersBuilt =>
        /\ ServiceController # << >>
        /\ \A i \in 1..Len(ServiceController) :
              ServiceController[i] = "ServiceEntries"
                 <=> i = Len(ServiceController)

C26_Witness ==
    /\ nsPc = "returned"
    /\ args.Registries = <<"MCP", "Consul">>
    /\ ServiceController = <<"Consul", "ServiceEntries">>

\* the secure serve goroutine takes its select after ServeTLS returned
LeavesSelect ==
    /\ task["secureServe"] = "returned"
    /\ task'["secureServe"] # "returned" \/ crashed' # crashed

\* C27: the step the secure serve goroutine takes after ServeTLS returned
\* panics exactly if stop is not closed; secureHTTPServer.Shutdown is
\* called with stop closed only, so after it that step does not panic.
C27_PanicUnlessStopped ==
    [][/\ LeavesSelect => (crashed' <=> ~stop)
       /\ Called("secure.Shutdown") => stop
       /\ LeavesSelect /\ Called("secure.Shutdown") => ~crashed']_vars

C27_Witness ==
    /\ crashed
    /\ task["secureServe"] = "returned"
    /\ ~stop
    /\ Called("secure.ServeTLS")

\* the Content-Type of the dispatched request starts with application/grpc
GrpcContentType ==
    /\ Len(routed.ContentType) >= 2
    /\ routed.ContentType[1] = "application/"
    /\ routed.ContentType[2] = "grpc"

\* C28: a request on the secure listener goes to the gRPC handler exactly
\* if it is HTTP/2 and its Content-Type starts with application/grpc, and
\* to the HTTP mux otherwise.
C28_SecureMux ==
    routed # NoRequest =>
        /\ routed.handler \in {"secureGRPCServer", "mux"}
        /\ routed.handler = "secureGRPCServer"
              <=> (routed.ProtoMajor = 2 /\ GrpcContentType)

C28_Witness ==
    /\ routed.handler = "secureGRPCServer"
    /\ routed.ProtoMajor = 2
    /\ routed.ContentType = <<"application/", "grpc", "+proto">>
    /\ task["secureServe"] = "running"

\* C29 as stated: a pending debounce timer counts its 100 ms from the last
\* event received for its path.
C29_Original ==
    \A p \in Paths : timerC[p] # "nil" => armedAt[p] = burst[p]

\* C29: a raw change event arms the debounce timer only if none is pending;
\* a pending timer counts its 100 ms from the first event of the burst,
\* whatever number of events followed it.
C29_ArmedByFirstEvent ==
    \A p \in Paths :
        /\ timerC[p] # "nil" => armedAt[p] = 1 /\ burst[p] >= 1
        /\ timerC[p] = "nil" => armedAt[p] = 0

C29_Witness ==
    \E p \in Paths :
        /\ timerC[p] = "armed"
        /\ burst[p] = 2
        /\ armedAt[p] = 1

\* the mesh-networks callback runs in this step
NetworksCallback == callbacks'[NetworksFile] # callbacks[NetworksFile]

\* the text of the networks file a snapshot was loaded from
LoadedFrom(n) == IF n.val = "m2@resolved" THEN "m2" ELSE n.val

\* C30: a mesh-networks callback that reads from the file the topology the
\* installed snapshot was loaded from installs nothing, rebinds no lookup
\* table and requests no push, also when host resolution has rewritten the
\* installed snapshot.
C30_SameTopologyNoReload ==
    [][NetworksCallback
          /\ ~ReadConfig(file[NetworksFile], nextRef).err
          /\ file[NetworksFile] = LoadedFrom(meshNetworks)
       => /\ meshNetworks' = meshNetworks
          /\ lookup' = lookup
          /\ env' = env
          /\ pushes' = pushes]_vars

\* in this step the mesh-networks callback installs a new snapshot
NetworksInstall ==
    NetworksCallback /\ meshNetworks' # meshNetworks

\* in this step the lookup tables that exist are rebound to the snapshot
\* that is installed, and the others stay absent
Rebound ==
    \A k \in DOMAIN lookup :
        lookup'[k] = IF lookup[k] = NoRegistry THEN NoRegistry
                     ELSE meshNetworks'

\* the push requested in this step found the new snapshot on the lookup
\* tables and on the discovery environment
PushedAfterRebind ==
    /\ pushedWith'.lookup = lookup'
    /\ pushedWith'.env # NoEnv
    /\ pushedWith'.env.MeshNetworks = meshNetworks'

\* C31: a mesh-networks callback that detects a change installs the new
\* snapshot, rebinds the lookup tables of the cluster registry and of the
\* multicluster coordinator that exist, and requests exactly one full push,
\* which finds the lookup tables already rebound.
C31_RebindThenPush ==
    [][NetworksInstall =>
          /\ meshNetworks' =
                ResolveHostsInNetworksConfig(
                    ReadConfig(file[NetworksFile], nextRef).cfg)
          /\ Rebound
          /\ pushes' = pushes + 1
          /\ PushedAfterRebind]_vars

\* the source initMCPConfigController is working on is mutual or mesh-mutual
MutualSource ==
    /\ mcp.todo # << >>
    /\ Head(mcp.todo).TlsSettings \in {"MUTUAL", "ISTIO_MUTUAL"}

\* the wait loop has a file to stat and the file exists
HeadExists == mcp.requiredFiles # << >> /\ Head(mcp.requiredFiles) \in certs

ReaderRunning == \E i \in DOMAIN mcp.clients : mcp.clients[i] = "running"

ConnClosed == \E i \in DOMAIN mcp.conns : mcp.conns[i] = "closed"

\* C33: the goroutine of the remote-config start action cancels the
\* connection context only once stop is closed and with every connection
\* still open; a connection is closed only with the context cancelled and
\* no reader goroutine running; and when the goroutine has ended every
\* connection is closed.
C33_CancelWaitClose ==
    /\ [](CtxDone => stop)
    /\ [][~CtxDone /\ CtxDone' => ~ConnClosed']_vars
    /\ [](ConnClosed => CtxDone /\ ~ReaderRunning)
    /\ [](task["mcp"] = "exited" =>
             \A i \in DOMAIN mcp.conns : mcp.conns[i] = "closed")

C33_Witness ==
    /\ task["mcp"] = "exited"
    /\ Len(mcp.clients) = 2
    /\ \A i \in DOMAIN mcp.clients : mcp.clients[i] = "exited"
    /\ mcp.conns = <<"closed", "closed">>

\* initCertController has returned nil
CertControllerDone ==
    /\ \E i \in 1..Len(initRan) : initRan[i] = "initCertController"
    /\ initErr # "initCertController"

\* the certificate entries the mesh of the server declares
Declared == Certificates(mesh)

\* the lists certController was created with are those of the entries
\* picked, in their order, one namespace for each
HandedOver(picked) ==
    /\ certController.secretNames =
          [i \in 1..Len(picked) |-> picked[i].SecretName]
    /\ certController.dnsNames = [i \in 1..Len(picked) |-> picked[i].DnsNames]
    /\ Len(certController.namespaces) = Len(picked)

HasSecret(c) == c.SecretName # ""
HasDnsAndSecret(c) == c.DnsNames # "" /\ c.SecretName # ""

\* C34 as stated: once initCertController has returned nil with an entry
\* declared, the controller exists, has a start action, and was handed
\* every entry that carries a secret name.
C34_Original ==
    CertControllerDone /\ Declared # << >> =>
        /\ certController.made
        /\ Registers("certController")
        /\ HandedOver(SelectSeq(Declared, HasSecret))

\* C34: a controller is created only with an entry declared and a
\* Kubernetes client, it has a start action, and its three lists, of equal
\* length, are those of the entries that have a DNS name and a secret name,
\* in their order; without a controller there is no start action; and once
\* initCertController has returned nil with an entry declared the
\* controller exists unless an entry with a DNS name and no secret name
\* asked for Pilot's own certificate.
C34_SecretsWithDnsName ==
    /\ certController.made =>
          /\ Declared # << >> /\ kubeClient
          /\ Registers("certController")
          /\ HandedOver(SelectSeq(Declared, HasDnsAndSecret))
    /\ ~certController.made => ~Registers("certController")
    /\ CertControllerDone /\ Declared # << >> /\ ~certController.made =>
          \E i \in 1..Len(Declared) :
              Declared[i].DnsNames # "" /\ Declared[i].SecretName = ""

C34_Witness ==
    /\ nsPc = "returned"
    /\ certController.made
    /\ Declared = <<[DnsNames |-> "", SecretName |-> "s"],
                    [DnsNames |-> "b", SecretName |-> "t"]>>
    /\ certController.secretNames = <<"t">>
    /\ certController.dnsNames = <<"b">>

\* thread t is between a.mu.Lock() and the Unlock of Restart or abortAll
InCritical(t) ==
    \/ rpc[t] \in {"wait", "spawn"}
    \/ t = Ctl /\ ctlPc = "aborting"

\* C35: a thread inside Restart or abortAll holds the mutex, so at most one
\* is inside; the mutex is taken only when it is free; the active-epoch
\* map, currentEpoch and currentConfig change only in a step of the holder
\* or in the status handling of Run, which takes the free mutex for its
\* delete; and a Restart that spawns holds the mutex and makes the epoch
\* after the current one, which is not in the map, with its own config.
C35_MutexGuardsEpochs ==
    /\ [](\A t \in Threads : InCritical(t) => mu = t)
    /\ [](mu # Free => InCritical(mu))
    /\ [][\A t \in Threads :
             (rpc[t] = "lock" /\ rpc'[t] # "lock") \/ (mu # t /\ mu' = t)
                => mu = Free]_vars
    /\ [][agentVars' # agentVars =>
             \/ mu # Free /\ rpc[mu] = "spawn" /\ rpc'[mu] = "idle"
             \/ mu = Free /\ ctlPc = "status" /\ ctlPc' # "status"]_vars
    /\ [][\A t \in Threads : Spawns(t) =>
             /\ mu = t
             /\ currentEpoch' = currentEpoch + 1
             /\ currentEpoch' \notin DOMAIN activeEpochs
             /\ DOMAIN activeEpochs' = DOMAIN activeEpochs \cup {currentEpoch'}
             /\ currentConfig' = rarg[t]]_vars

\* two callers have called Restart with configs of different content: one
\* has spawned epoch 0 and the other, inside Restart, is spawning epoch 1
\* while Run waits with a received status for the mutex
C35_Witness ==
    /\ spawned = <<0>>
    /\ rpc["t2"] = "spawn" /\ mu = "t2"
    /\ ~SameContent(rarg["t2"], currentConfig)
    /\ currentConfig.kind = "cfg"
    /\ ctlPc = "status"

(***************************************************************************)
(* The active-epoch map and the current config                             *)
(***************************************************************************)
\* the epochs a step puts into a.activeEpochs
Inserted == DOMAIN activeEpochs' \ DOMAIN activeEpochs

EpochsInState ==
    /\ DOMAIN activeEpochs \subseteq 0..currentEpoch
    /\ \A e1, e2 \in DOMAIN activeEpochs :
           activeEpochs[e1] = activeEpochs[e2] => e1 = e2
    /\ currentEpoch >= 0 =>
           /\ currentEpoch \in DOMAIN runner
           /\ runner[currentEpoch].own

EpochsInStep ==
    /\ currentEpoch' >= currentEpoch
    /\ \A e \in Inserted :
           /\ e = currentEpoch'
           /\ e > currentEpoch
           /\ e \notin DOMAIN runner
           /\ activeEpochs'[e] \notin DOMAIN chans
           /\ activeEpochs'[e] \in DOMAIN chans'
           /\ chans'[activeEpochs'[e]] = << >>
    /\ \A e \in DOMAIN activeEpochs \cap DOMAIN activeEpochs' :
           activeEpochs'[e] = activeEpochs[e]
    /\ (currentEpoch' # currentEpoch \/ currentConfig' # currentConfig) =>
           Inserted = {currentEpoch'}

\* C36: the keys of the active-epoch map lie in 0..currentEpoch; an epoch
\* enters the map only as the new currentEpoch, above every epoch there has
\* been, with an abort channel made in that step and shared with no other
\* epoch, so that an epoch that was removed never comes back; and
\* currentConfig changes only in such a step, where the runner of the new
\* currentEpoch is handed that same config
C36_EpochMap == [](EpochsInState) /\ [][EpochsInStep]_vars

\* epoch 0 has been reaped and epoch 1 is the current, active one
C36_Witness ==
    /\ currentEpoch = 1
    /\ DOMAIN activeEpochs = {1}
    /\ 0 \in observed
    /\ currentConfig # Nil
    /\ runner[1].own

(***************************************************************************)
(* Runners that outlive agent.Run                                          *)
(***************************************************************************)
\* the runner of epoch e is at its send on a.statusCh
AtSend(e) == AtStep(e, "post")

\* a.statusCh has one receiver, the select of Run
OnlyRunReceives ==
    /\ observed' # observed => ctlPc = "select" /\ ctlPc' = "status"
    /\ ~(DOMAIN activeEpochs \subseteq DOMAIN activeEpochs') =>
           ctlPc = "status"

\* what stays as it is once Run has returned
AfterRunReturned ==
    ctlPc = "returned" =>
        /\ ctlPc' = "returned"
        /\ observed' = observed
        /\ DOMAIN activeEpochs \subseteq DOMAIN activeEpochs'
        /\ \A e \in DOMAIN runner : AtSend(e) => AtSend(e)'

\* C37: exit statuses are received by the select of Run and by nothing
\* else; once Run has returned no status is received and no epoch leaves
\* the active set, and a runner that reaches its send, which it does after
\* its Cleanup call, stays at the send
C37_LateRunnersBlock ==
    /\ [](\A e \in DOMAIN runner : AtSend(e) => cleanupCalls[e] = 1)
    /\ [][OnlyRunReceives /\ AfterRunReturned]_vars

\* Run has returned from terminate; an epoch that took the abort error has
\* called Cleanup, waits at its send and is still in the active set
C37_Witness ==
    /\ ctlPc = "returned"
    /\ drainCalls = 1
    /\ \E e \in DOMAIN activeEpochs :
           /\ AtSend(e)
           /\ runner[e].err = errAbort
           /\ cleanupCalls[e] = 1
           /\ e \notin observed

(***************************************************************************)
(* terminate: Restart(DrainConfig{}), Sleep, abortAll                      *)
(***************************************************************************)
\* the step in which the Restart call of terminate returns
DrainRestartReturns == rpc[Ctl] # "idle" /\ rpc'[Ctl] = "idle"

\* that Restart started one epoch, the next one, with the drain config
DrainEpochSpawned ==
    /\ currentConfig # DrainConfig
    /\ Inserted = {currentEpoch + 1}
    /\ currentEpoch' = currentEpoch + 1
    /\ currentConfig' = DrainConfig
    /\ runner'[currentEpoch'].pc = 1
    /\ runner'[currentEpoch'].own
    /\ spawned' = Append(spawned, currentEpoch + 1)

\* that Restart found the drain config current and started nothing
DrainAlreadyCurrent ==
    /\ currentConfig = DrainConfig
    /\ UNCHANGED <<currentEpoch, currentConfig, activeEpochs, runner,
                   spawned>>

InTerminate == ctlPc \in {"terminate", "abortAll", "aborting"}

TerminateStep ==
    /\ ctlPc = "select" /\ ctlPc' = "terminate" =>
           /\ ctxDone
           /\ rpc'[Ctl] = "lock"
           /\ rarg'[Ctl] = DrainConfig
    /\ DrainRestartReturns => DrainEpochSpawned \/ DrainAlreadyCurrent
    /\ InTerminate =>
           /\ DOMAIN activeEpochs \subseteq DOMAIN activeEpochs'
           /\ Cardinality(Inserted) <=
                  Cardinality({t \in Threads : rpc[t] = "spawn"
                                                /\ rpc'[t] = "idle"})
    /\ ctlPc = "aborting" /\ ctlPc' = "returned" =>
           \A e \in DOMAIN activeEpochs : abortSent[activeEpochs[e]] = 1

\* C38: the ctx.Done branch of Run calls Restart with the drain config
\* whatever the active set holds; that call returns either having started
\* exactly one epoch, currentEpoch + 1, with the drain config (epoch 0 when
\* no epoch was ever started), or having found the drain config to be the
\* current one; no epoch leaves the active set while terminate runs, and
\* when terminate returns every active epoch, the drain epoch among them,
\* has been sent the abort error
C38_DrainEpoch == [](drainCalls <= 1) /\ [][TerminateStep]_vars

\* no Restart before the context was cancelled: terminate started epoch 0
\* with the drain config and aborted it
C38_Witness ==
    /\ ctlPc = "returned"
    /\ drainCalls = 1
    /\ spawned = <<0>>
    /\ currentEpoch = 0
    /\ currentConfig = DrainConfig
    /\ 0 \in DOMAIN activeEpochs
    /\ abortSent[activeEpochs[0]] = 1

(***************************************************************************)
(* The debounce loops under fair scheduling                                *)
(***************************************************************************)
\* A timer that was armed delivers after its 100 ms, a debounce loop whose
\* timer has delivered takes the timer branch, and a callback that has not
\* panicked returns.  Nothing is assumed of the file system or of NewServer.
WatchFairness ==
    /\ \A p \in Paths : WF_vars(DebounceExpires(p))
    /\ \A p \in Paths : WF_vars(CallbackReturns(p))
    /\ WF_vars(MeshReload)
    /\ WF_vars(MeshNetworksReload)

FairServerSpec == ServerSpec /\ WatchFairness

\* the debounce loop of p has taken an event that no callback invocation
\* has followed yet
Uncovered(p) == burst[p] > 0

\* the only step that covers the events taken is the start of an
\* invocation of the callback
CoveredByCallback ==
    \A p \in Paths :
        Uncovered(p) /\ ~Uncovered(p)' =>
            /\ callbacks'[p] = callbacks[p] + 1
            /\ running[p] = 0
            /\ running'[p] = 1

\* C39: an event the debounce loop of a path has taken finds a timer
\* pending or arms one, and it is followed by an invocation of the path's
\* callback that starts after it; at most one invocation of a path's
\* callback is in progress at any time
C39_NoChangeLost ==
    /\ [](\A p \in Paths :
             /\ running[p] <= 1
             /\ Uncovered(p) => timerC[p] \in {"armed", "fired"})
    /\ [][CoveredByCallback]_vars
    /\ \A p \in Paths : Uncovered(p) ~> ~Uncovered(p)

\* two changes of the mesh file, the second one after the first firing:
\* the callback has run and returned twice, once for each
C39_Witness ==
    /\ callbacks[MeshFile] = 2
    /\ lastBurst[MeshFile] = 1
    /\ running[MeshFile] = 0
    /\ events[MeshFile] = 0
    /\ ~Uncovered(MeshFile)
    /\ ~crashed


====
